---- MODULE Spec2Model ----
(***************************************************************************)
(* The generic record accessor of src/src/db/factory.ts (Factory): eight   *)
(* operations that build parameterised SQL from Statement objects and send *)
(* it to a pg pool.  The accessor side (key conversion, clause building,   *)
(* parameter arrays, result handling) is translated from factory.ts.  The  *)
(* pool side executes the statement the accessor built, placeholder by     *)
(* placeholder, against a table with the columns id, name, created_at and  *)
(* updated_at (id the primary key, name NOT NULL).                         *)
(***************************************************************************)
EXTENDS Integers, Sequences, FiniteSets, TLC

\* ------------------------------------------------------------------ bounds

\* The clock (Date.now()) takes the values 1..MaxClock.
MaxClock == 2

\* ------------------------------------------------------------ identifiers
\* An identifier (a Statement key, a column name) is a sequence of characters,
\* so that camelToSnake is computed character by character.

UpperCase ==
    <<"A","B","C","D","E","F","G","H","I","J","K","L","M",
      "N","O","P","Q","R","S","T","U","V","W","X","Y","Z">>

LowerCase ==
    <<"a","b","c","d","e","f","g","h","i","j","k","l","m",
      "n","o","p","q","r","s","t","u","v","w","x","y","z">>

IsUpper(c) == \E i \in 1..Len(UpperCase) : UpperCase[i] = c

toLowerCase(c) ==
    IF IsUpper(c)
    THEN LowerCase[CHOOSE i \in 1..Len(UpperCase) : UpperCase[i] = c]
    ELSE c

\* A variant of camelToSnake: the pattern without the g flag, so that only the
\* first upper-case letter is replaced.
camelToSnakeFirstOnly(str) ==
    IF \A i \in 1..Len(str) : ~IsUpper(str[i]) THEN str
    ELSE LET i == CHOOSE k \in 1..Len(str) :
                      IsUpper(str[k]) /\ \A m \in 1..(k - 1) : ~IsUpper(str[m])
         IN SubSeq(str, 1, i - 1) \o <<"_", toLowerCase(str[i])>>
            \o SubSeq(str, i + 1, Len(str))

\* str.replace(/[A-Z]/g, (letter) => `_${letter.toLowerCase()}`)
RECURSIVE camelToSnake(_)
camelToSnake(str) ==
    IF str = <<>> THEN <<>>
    ELSE (IF IsUpper(Head(str)) THEN <<"_", toLowerCase(Head(str))>> ELSE <<Head(str)>>)
         \o camelToSnake(Tail(str))

\* Statement keys at the call boundary (camelCase).
kId == <<"i","d">>
kName == <<"n","a","m","e">>
kCreatedAt == <<"c","r","e","a","t","e","d","A","t">>
kUpdatedAt == <<"u","p","d","a","t","e","d","A","t">>

\* A key that converts to no column of the table.
kLastLoginAt == <<"l","a","s","t","L","o","g","i","n","A","t">>

\* Identifiers the accessor writes literally into the SQL text.
conflictTarget == <<"i","d">>
created_at == <<"c","r","e","a","t","e","d","_","a","t">>
updated_at == <<"u","p","d","a","t","e","d","_","a","t">>

\* Construction parameters: Factory(pool, table, returnFields = ["*"]).  The
\* list of columns to return is given once, when the accessor is made, and is
\* written into the text as it is.
table == "users"

VARIABLE returnFields

\* returnFields when the argument is omitted
DefaultReturnFields == << <<"*">> >>

\* What Factory returned: the pool and table it was made for, the calls it made
\* to the extension factory, the object that factory returned (extend) and the
\* operation set, an object of operation names with the function under each
\* name, "generic" for a function of Factory and "extension" for one of extend.
VARIABLE accessor

GenericNames ==
    <<"create", "update", "upsert", "get", "list", "find", "del", "paginate">>

\* { create, update, upsert, get, list, find, del, paginate }
GenericOperations == [i \in 1..Len(GenericNames) |-> <<GenericNames[i], "generic">>]

\* Factory(pool, table) without an extension factory
GenericAccessor ==
    [made |-> TRUE, pool |-> "pool", table |-> table, extensionsFactory |-> <<>>,
     calls |-> <<>>,
     extend |-> <<>>, operations |-> GenericOperations]

\* The in-memory servers of tests/unit/api/users.test.ts: the users array of the
\* users API, and the request answered last with its response.
VARIABLES users, res

\* resetUsers(): the two seed users
SeedUsers ==
    << << <<"id", 1>>, <<"name", "John Doe">>, <<"email", "john@example.com">>,
          <<"active", TRUE>> >>,
       << <<"id", 2>>, <<"name", "Jane Smith">>, <<"email", "jane@example.com">>,
          <<"active", FALSE>> >> >>

\* A request answered: the route, the request (body, :id or Authorization
\* header), the status and the error of the response, the users array as the
\* route handler found it, the functions of the route's chain that ran, in that
\* order, and req.user when the chain ended.
Response(route, req, status, error, before, ran, user) ==
    [route |-> route, req |-> req, status |-> status, error |-> error,
     before |-> before, ran |-> ran, user |-> user]

NoResponse == Response("none", <<>>, 0, "", <<>>, <<>>, <<>>)

\* A caller that reads a table page by page: the options it keeps fixed, the
\* data of the pages it has read, from page 1 on, and the totalPages of the
\* envelope read last.
VARIABLE walk

NoWalk == [active |-> FALSE, options |-> <<>>, pages |-> <<>>, totalPages |-> 0]

\* ------------------------------------------------------------- JS objects
\* A Statement is a JS object: a sequence of <<key, value>> entries in insertion
\* order, no key twice.

ObjectKeys(obj) == [i \in 1..Len(obj) |-> obj[i][1]]

ObjectValues(obj) == [i \in 1..Len(obj) |-> obj[i][2]]

HasKey(obj, k) == \E i \in 1..Len(obj) : obj[i][1] = k

ValueOf(obj, k) == obj[CHOOSE i \in 1..Len(obj) : obj[i][1] = k][2]

\* obj[k] = v: an existing key keeps its position and takes the new value, a new
\* key is appended.
ObjectSet(obj, k, v) ==
    IF HasKey(obj, k)
    THEN [i \in 1..Len(obj) |-> IF obj[i][1] = k THEN <<k, v>> ELSE obj[i]]
    ELSE Append(obj, <<k, v>>)

RECURSIVE ObjectFromEntries(_)
ObjectFromEntries(entries) ==
    IF entries = <<>> THEN <<>>
    ELSE LET n == Len(entries)
         IN ObjectSet(ObjectFromEntries(SubSeq(entries, 1, n - 1)),
                      entries[n][1], entries[n][2])

\* A variant of toSnakeCaseObj: the converted entries are kept as they come, two
\* keys that convert to the same name give two entries.
toSnakeCaseObjKeepsTwins(obj) ==
    [i \in 1..Len(obj) |-> <<camelToSnake(obj[i][1]), obj[i][2]>>]

toSnakeCaseObj(obj) ==
    ObjectFromEntries([i \in 1..Len(obj) |-> <<camelToSnake(obj[i][1]), obj[i][2]>>])

\* fields.map((_, i) => `$${i + 1}`)
Placeholders(n, base) == [i \in 1..n |-> base + i]

\* fields.map((field, i) => `${field} = $${base + i + 1}`)
Equalities(fields, base) == [i \in 1..Len(fields) |-> <<fields[i], base + i>>]

\* ---------------------------------------------------------- query building
\* A query as the accessor hands it to pool.query: the SQL text, kept as its
\* clauses in the order they are written (identifiers as written, a placeholder
\* $n as the number n), and the parameter array.

\* A variant of StampCreatedAt: createdAt is always the current time.
StampCreatedAtNow(stmt, t) == t

\* const createdAt = Object.keys(stmt).includes("createdAt") ? (stmt.createdAt ?? now) : now
StampCreatedAt(stmt, t) ==
    IF HasKey(stmt, kCreatedAt) THEN ValueOf(stmt, kCreatedAt) ELSE t

\* A variant of StampedStmt: an updatedAt of the caller is kept, as createdAt is.
StampedStmtKeepsUpdatedAt(stmt, t) ==
    ObjectSet(ObjectSet(stmt, kCreatedAt, StampCreatedAt(stmt, t)), kUpdatedAt,
              IF HasKey(stmt, kUpdatedAt) THEN ValueOf(stmt, kUpdatedAt) ELSE t)

\* { ...stmt, createdAt, updatedAt } of create and upsert
StampedStmt(stmt, t) ==
    ObjectSet(ObjectSet(stmt, kCreatedAt, StampCreatedAt(stmt, t)), kUpdatedAt, t)

\* A variant of createQuery: RETURNING lists the columns the call inserted.
createQueryReturningFields(stmt, t) ==
    LET snakeStmt == toSnakeCaseObj(StampedStmt(stmt, t))
        fields == ObjectKeys(snakeStmt)
        values == ObjectValues(snakeStmt)
    IN [text |-> [kind |-> "INSERT", table |-> table, fields |-> fields,
                  placeholders |-> Placeholders(Len(fields), 0),
                  returning |-> fields],
        params |-> values]

createQuery(stmt, t) ==
    LET snakeStmt == toSnakeCaseObj(StampedStmt(stmt, t))
        fields == ObjectKeys(snakeStmt)
        values == ObjectValues(snakeStmt)
    IN [text |-> [kind |-> "INSERT", table |-> table, fields |-> fields,
                  placeholders |-> Placeholders(Len(fields), 0),
                  returning |-> returnFields],
        params |-> values]

\* A variant of UpdateStampedStmt: the spread is written the other way round,
\* { updatedAt, ...stmt }, so that an updatedAt of the caller wins.
UpdateStampedStmtCallerWins(stmt, t) ==
    IF HasKey(stmt, kUpdatedAt) THEN stmt ELSE ObjectSet(stmt, kUpdatedAt, t)

\* { ...stmt, updatedAt } of update
UpdateStampedStmt(stmt, t) == ObjectSet(stmt, kUpdatedAt, t)

\* A variant of updateQuery: the two arguments are taken for each other, the SET
\* clause is built from where and the WHERE clause from stmt.
updateQueryArgumentsSwapped(stmt, where, t) ==
    LET snakeStmt == toSnakeCaseObj(UpdateStampedStmt(where, t))
        setFields == ObjectKeys(snakeStmt)
        setValues == ObjectValues(snakeStmt)
        snakeWhere == toSnakeCaseObj(stmt)
        whereFields == ObjectKeys(snakeWhere)
        whereValues == ObjectValues(snakeWhere)
    IN [text |-> [kind |-> "UPDATE", table |-> table,
                  set |-> Equalities(setFields, 0),
                  where |-> Equalities([i \in 1..Len(whereFields) |->
                                            camelToSnake(whereFields[i])],
                                       Len(setFields)),
                  returning |-> returnFields],
        params |-> setValues \o whereValues]

\* A variant of updateQuery: only the first field of where makes a condition.
updateQueryFirstEquality(stmt, where, t) ==
    LET snakeStmt == toSnakeCaseObj(UpdateStampedStmt(stmt, t))
        setFields == ObjectKeys(snakeStmt)
        setValues == ObjectValues(snakeStmt)
        snakeWhere == toSnakeCaseObj(where)
        whereFields == ObjectKeys(snakeWhere)
        whereValues == ObjectValues(snakeWhere)
    IN [text |-> [kind |-> "UPDATE", table |-> table,
                  set |-> Equalities(setFields, 0),
                  where |-> Equalities(IF whereFields = <<>> THEN <<>>
                                       ELSE <<camelToSnake(whereFields[1])>>,
                                       Len(setFields)),
                  returning |-> returnFields],
        params |-> setValues \o (IF whereValues = <<>> THEN <<>>
                                 ELSE <<whereValues[1]>>)]

updateQuery(stmt, where, t) ==
    LET snakeStmt == toSnakeCaseObj(UpdateStampedStmt(stmt, t))
        setFields == ObjectKeys(snakeStmt)
        setValues == ObjectValues(snakeStmt)
        snakeWhere == toSnakeCaseObj(where)
        whereFields == ObjectKeys(snakeWhere)
        whereValues == ObjectValues(snakeWhere)
    IN [text |-> [kind |-> "UPDATE", table |-> table,
                  set |-> Equalities(setFields, 0),
                  where |-> Equalities([i \in 1..Len(whereFields) |->
                                            camelToSnake(whereFields[i])],
                                       Len(setFields)),
                  returning |-> returnFields],
        params |-> setValues \o whereValues]

\* fields.filter((f) => f !== conflictTarget && f !== "created_at")
\*       .map((f) => `${f} = EXCLUDED.${f}`)
RECURSIVE updateClause(_)
updateClause(fields) ==
    IF fields = <<>> THEN <<>>
    ELSE (IF Head(fields) # conflictTarget /\ Head(fields) # created_at
          THEN << <<Head(fields), Head(fields)>> >> ELSE <<>>)
         \o updateClause(Tail(fields))

finalUpdateClause(fields) ==
    IF updateClause(fields) # <<>>
    THEN updateClause(fields) \o << <<updated_at, updated_at>> >>
    ELSE << <<updated_at, updated_at>> >>

upsertQuery(stmt, t) ==
    LET snakeStmt == toSnakeCaseObj(StampedStmt(stmt, t))
        fields == ObjectKeys(snakeStmt)
        values == ObjectValues(snakeStmt)
    IN [text |-> [kind |-> "UPSERT", table |-> table, fields |-> fields,
                  placeholders |-> Placeholders(Len(fields), 0),
                  conflict |-> conflictTarget,
                  doUpdateSet |-> finalUpdateClause(fields),
                  returning |-> returnFields],
        params |-> values]

\* A variant of WhereClause: only the first field of where makes a condition.
WhereClauseFirstOnly(where) ==
    LET whereFields == ObjectKeys(toSnakeCaseObj(where))
    IN Equalities(IF whereFields = <<>> THEN <<>> ELSE <<whereFields[1]>>, 0)

\* The WHERE clause of get, find and del: the keyword is always written.
WhereClause(where) == Equalities(ObjectKeys(toSnakeCaseObj(where)), 0)

getQuery(where) ==
    [text |-> [kind |-> "SELECT", columns |-> returnFields, table |-> table,
               whereKw |-> TRUE, where |-> WhereClause(where),
               orderBy |-> <<>>, limit |-> <<"literal", 1>>, offset |-> <<>>],
     params |-> ObjectValues(toSnakeCaseObj(where))]

\* A variant of listQuery: the WHERE keyword is written whenever where is given,
\* also when it has no field.
listQueryUnguarded(optWhere) ==
    [text |-> [kind |-> "SELECT", columns |-> returnFields, table |-> table,
               whereKw |-> optWhere # <<>>,
               where |-> IF optWhere # <<>> THEN Equalities(ObjectKeys(
                                                     toSnakeCaseObj(optWhere[1])), 0)
                         ELSE <<>>,
               orderBy |-> <<>>, limit |-> <<>>, offset |-> <<>>],
     params |-> IF optWhere # <<>> THEN ObjectValues(toSnakeCaseObj(optWhere[1]))
                ELSE <<>>]

\* list(where?): optWhere is <<>> when where is omitted and <<where>> otherwise;
\* the WHERE keyword is written only when where has a field.
listQuery(optWhere) ==
    LET given == optWhere # <<>> /\ Len(ObjectKeys(toSnakeCaseObj(optWhere[1]))) > 0
    IN [text |-> [kind |-> "SELECT", columns |-> returnFields, table |-> table,
                  whereKw |-> given,
                  where |-> IF given THEN WhereClause(optWhere[1]) ELSE <<>>,
                  orderBy |-> <<>>, limit |-> <<>>, offset |-> <<>>],
        params |-> IF given THEN ObjectValues(toSnakeCaseObj(optWhere[1])) ELSE <<>>]

findQuery(where) ==
    [text |-> [kind |-> "SELECT", columns |-> returnFields, table |-> table,
               whereKw |-> TRUE, where |-> WhereClause(where),
               orderBy |-> <<>>, limit |-> <<>>, offset |-> <<>>],
     params |-> ObjectValues(toSnakeCaseObj(where))]

delQuery(where) ==
    [text |-> [kind |-> "DELETE", table |-> table,
               whereKw |-> TRUE, where |-> WhereClause(where)],
     params |-> ObjectValues(toSnakeCaseObj(where))]

\* paginate: the WHERE clause shared by its two queries (written only when where
\* is given and has a key), and the where values pushed to queryParams.
paginateConditions(optWhere) ==
    IF optWhere # <<>> /\ Len(ObjectKeys(optWhere[1])) > 0
    THEN Equalities(ObjectKeys(toSnakeCaseObj(optWhere[1])), 0)
    ELSE <<>>

paginateWhereParams(optWhere) ==
    IF optWhere # <<>> /\ Len(ObjectKeys(optWhere[1])) > 0
    THEN ObjectValues(toSnakeCaseObj(optWhere[1]))
    ELSE <<>>

\* A variant of orderByClause: the requested direction is not looked at, the
\* order is always descending.
orderByClauseIgnoresDirection(optOrderBy) ==
    IF optOrderBy # <<>>
    THEN <<camelToSnake(optOrderBy[1].field), "DESC">>
    ELSE <<created_at, "DESC">>

\* optOrderBy is <<>> when orderBy is omitted and <<[field, direction]>> otherwise.
orderByClause(optOrderBy) ==
    IF optOrderBy # <<>>
    THEN <<camelToSnake(optOrderBy[1].field),
           IF optOrderBy[1].direction = "DESC" THEN "DESC" ELSE "ASC">>
    ELSE <<created_at, "DESC">>

\* A variant of countQuery: the count is taken over the whole table, the WHERE
\* clause is left out.
countQueryUnfiltered(optWhere) ==
    [text |-> [kind |-> "COUNT", table |-> table, whereKw |-> FALSE, where |-> <<>>],
     params |-> <<>>]

countQuery(optWhere) ==
    [text |-> [kind |-> "COUNT", table |-> table,
               whereKw |-> paginateConditions(optWhere) # <<>>,
               where |-> paginateConditions(optWhere)],
     params |-> paginateWhereParams(optWhere)]

\* A variant of pageOffset: pages counted from 0.
pageOffsetZeroBased(page, pageSize) == page * pageSize

\* const offset = (page - 1) * pageSize
pageOffset(page, pageSize) == (page - 1) * pageSize

\* A variant of dataQuery: offset is pushed to queryParams before pageSize.
dataQueryOffsetFirst(page, pageSize, optWhere, optOrderBy) ==
    LET paramIndex == Len(paginateConditions(optWhere)) + 1
    IN [text |-> [kind |-> "SELECT", columns |-> returnFields, table |-> table,
                  whereKw |-> paginateConditions(optWhere) # <<>>,
                  where |-> paginateConditions(optWhere),
                  orderBy |-> orderByClause(optOrderBy),
                  limit |-> <<"param", paramIndex>>,
                  offset |-> <<"param", paramIndex + 1>>],
        params |-> paginateWhereParams(optWhere)
                   \o <<pageOffset(page, pageSize), pageSize>>]

\* A variant of dataQuery: pageSize is written into the text, LIMIT <pageSize>,
\* and only offset is bound.
dataQueryLimitInlined(page, pageSize, optWhere, optOrderBy) ==
    LET paramIndex == Len(paginateConditions(optWhere)) + 1
    IN [text |-> [kind |-> "SELECT", columns |-> returnFields, table |-> table,
                  whereKw |-> paginateConditions(optWhere) # <<>>,
                  where |-> paginateConditions(optWhere),
                  orderBy |-> orderByClause(optOrderBy),
                  limit |-> <<"literal", pageSize>>,
                  offset |-> <<"param", paramIndex>>],
        params |-> paginateWhereParams(optWhere) \o <<pageOffset(page, pageSize)>>]

dataQuery(page, pageSize, optWhere, optOrderBy) ==
    LET paramIndex == Len(paginateConditions(optWhere)) + 1
    IN [text |-> [kind |-> "SELECT", columns |-> returnFields, table |-> table,
                  whereKw |-> paginateConditions(optWhere) # <<>>,
                  where |-> paginateConditions(optWhere),
                  orderBy |-> orderByClause(optOrderBy),
                  limit |-> <<"param", paramIndex>>,
                  offset |-> <<"param", paramIndex + 1>>],
        params |-> paginateWhereParams(optWhere)
                   \o <<pageSize, pageOffset(page, pageSize)>>]

\* A variant of totalPagesOf: Math.floor for Math.ceil.
totalPagesFloor(totalCount, pageSize) == totalCount \div pageSize

\* Math.ceil(totalCount / pageSize), pageSize >= 1
totalPagesOf(totalCount, pageSize) ==
    IF totalCount % pageSize = 0
    THEN totalCount \div pageSize
    ELSE (totalCount \div pageSize) + 1

\* ---------------------------------------------------------------- the pool
\* pool.query(text, params): the store parses the statement, binds the
\* parameters and runs it on the table, a set of rows with distinct ids.

\* The columns of the table.
colId == <<"i","d">>
colName == <<"n","a","m","e">>
colCreatedAt == <<"c","r","e","a","t","e","d","_","a","t">>
colUpdatedAt == <<"u","p","d","a","t","e","d","_","a","t">>

\* The row field an identifier of the SQL text names; "?" when the table has no
\* such column.
Column(ident) ==
    CASE ident = colId -> "id"
      [] ident = colName -> "name"
      [] ident = colCreatedAt -> "created_at"
      [] ident = colUpdatedAt -> "updated_at"
      [] OTHER -> "?"

NoDuplicates(seq) == \A i, j \in 1..Len(seq) : seq[i] = seq[j] => i = j

Result(err, rows, rowCount, tbl) ==
    [err |-> err, rows |-> rows, rowCount |-> rowCount, table |-> tbl]

Failure(err, tbl) == Result(err, <<>>, 0, tbl)

\* Every $n of the text has a parameter, and every parameter a $n.
Bound(placeholders, params) ==
    /\ \A i \in 1..Len(placeholders) : placeholders[i] \in 1..Len(params)
    /\ \A n \in 1..Len(params) : \E i \in 1..Len(placeholders) : placeholders[i] = n

\* col1 = $a AND col2 = $b ...
Matches(row, conds, params) ==
    \A i \in 1..Len(conds) : row[Column(conds[i][1])] = params[conds[i][2]]

Matching(tbl, conds, params) == {r \in tbl : Matches(r, conds, params)}

KnownColumns(idents) == \A i \in 1..Len(idents) : Column(idents[i]) # "?"

UniqueIds(rows) == \A r1, r2 \in rows : r1.id = r2.id => r1 = r2

\* ORDER BY ident direction: r may come before q.
InOrder(r, q, orderBy) ==
    IF orderBy[2] = "DESC"
    THEN r[Column(orderBy[1])] >= q[Column(orderBy[1])]
    ELSE r[Column(orderBy[1])] <= q[Column(orderBy[1])]

\* Every array the store may return for a set of rows: any arrangement when the
\* statement has no ORDER BY (orderBy = <<>>), and otherwise the arrangements in
\* that order, rows with the same value in the ordering column in any order.
RECURSIVE Arrays(_, _)
Arrays(rows, orderBy) ==
    IF rows = {} THEN {<<>>}
    ELSE UNION {{<<r>> \o a : a \in Arrays(rows \ {r}, orderBy)} :
                  r \in {x \in rows : orderBy # <<>> =>
                                      \A y \in rows : InOrder(x, y, orderBy)}}

\* SELECT/RETURNING column list: "*" is every column.
Project(row, cols) ==
    IF \E i \in 1..Len(cols) : cols[i] = <<"*">>
    THEN row
    ELSE [c \in {Column(cols[i]) : i \in 1..Len(cols)} |-> row[c]]

ProjectAll(rows, cols) == [i \in 1..Len(rows) |-> Project(rows[i], cols)]

KnownReturning(cols) ==
    \A i \in 1..Len(cols) : cols[i] = <<"*">> \/ Column(cols[i]) # "?"

\* The row an INSERT proposes: the listed columns take their parameters, id a
\* value the store generates, created_at and updated_at the store's
\* CURRENT_TIMESTAMP default.
Proposed(text, params, id, t) ==
    LET given(c) == \E i \in 1..Len(text.fields) : Column(text.fields[i]) = c
        value(c) == params[text.placeholders[
                        CHOOSE i \in 1..Len(text.fields) : Column(text.fields[i]) = c]]
    IN [id |-> IF given("id") THEN value("id") ELSE id,
        name |-> IF given("name") THEN value("name") ELSE "NULL",
        created_at |-> IF given("created_at") THEN value("created_at") ELSE t,
        updated_at |-> IF given("updated_at") THEN value("updated_at") ELSE t]

InsertError(text, params) ==
    IF Len(text.placeholders) # Len(text.fields) THEN "SyntaxError"
    ELSE IF ~KnownColumns(text.fields) \/ ~KnownReturning(text.returning)
    THEN "UndefinedColumn"
    ELSE IF ~NoDuplicates(text.fields) THEN "DuplicateColumn"
    ELSE IF ~Bound(text.placeholders, params) THEN "BindError"
    ELSE IF \A i \in 1..Len(text.fields) : Column(text.fields[i]) # "name"
    THEN "NotNullViolation"
    ELSE ""

\* INSERT INTO table (fields) VALUES (placeholders) RETURNING returning
ExecInsert(text, params, tbl, ids, t) ==
    IF InsertError(text, params) # "" THEN {Failure(InsertError(text, params), tbl)}
    ELSE LET free == IF \E i \in 1..Len(text.fields) : Column(text.fields[i]) = "id"
                     THEN {0}
                     ELSE ids \ {r.id : r \in tbl}
         IN {IF \E r \in tbl : r.id = Proposed(text, params, id, t).id
             THEN Failure("UniqueViolation", tbl)
             ELSE Result("", <<Project(Proposed(text, params, id, t), text.returning)>>,
                         1, tbl \cup {Proposed(text, params, id, t)}) : id \in free}

\* col = EXCLUDED.col, ... applied to the row in conflict
RECURSIVE Excluded(_, _, _)
Excluded(row, assignments, proposed) ==
    IF assignments = <<>> THEN row
    ELSE Excluded([row EXCEPT ![Column(Head(assignments)[1])] =
                                 proposed[Column(Head(assignments)[2])]],
                  Tail(assignments), proposed)

UpsertError(text, params) ==
    IF InsertError(text, params) \in {"SyntaxError", "UndefinedColumn", "DuplicateColumn"}
    THEN InsertError(text, params)
    ELSE IF Column(text.conflict) # "id" THEN "NoUniqueConstraint"
    ELSE IF \/ ~KnownColumns([i \in 1..Len(text.doUpdateSet) |-> text.doUpdateSet[i][1]])
            \/ ~KnownColumns([i \in 1..Len(text.doUpdateSet) |-> text.doUpdateSet[i][2]])
    THEN "UndefinedColumn"
    ELSE IF ~NoDuplicates([i \in 1..Len(text.doUpdateSet) |-> text.doUpdateSet[i][1]])
    THEN "DuplicateAssignment"
    ELSE InsertError(text, params)

\* INSERT ... ON CONFLICT (conflict) DO UPDATE SET doUpdateSet RETURNING returning
ExecUpsert(text, params, tbl, ids, t) ==
    IF UpsertError(text, params) # "" THEN {Failure(UpsertError(text, params), tbl)}
    ELSE LET free == IF \E i \in 1..Len(text.fields) : Column(text.fields[i]) = "id"
                     THEN {0}
                     ELSE ids \ {r.id : r \in tbl}
         IN {LET proposed == Proposed(text, params, id, t)
                 hit == {r \in tbl : r.id = proposed.id}
             IN IF hit = {}
                THEN Result("", <<Project(proposed, text.returning)>>, 1,
                            tbl \cup {proposed})
                ELSE LET old == CHOOSE r \in hit : TRUE
                         new == Excluded(old, text.doUpdateSet, proposed)
                     IN Result("", <<Project(new, text.returning)>>, 1,
                               (tbl \ {old}) \cup {new}) : id \in free}

\* col = $n, ... applied to a matching row
RECURSIVE Assigned(_, _, _)
Assigned(row, assignments, params) ==
    IF assignments = <<>> THEN row
    ELSE Assigned([row EXCEPT ![Column(Head(assignments)[1])] =
                                 params[Head(assignments)[2]]],
                  Tail(assignments), params)

UpdateError(text, params) ==
    IF text.set = <<>> \/ text.where = <<>> THEN "SyntaxError"
    ELSE IF \/ ~KnownColumns([i \in 1..Len(text.set) |-> text.set[i][1]])
            \/ ~KnownColumns([i \in 1..Len(text.where) |-> text.where[i][1]])
            \/ ~KnownReturning(text.returning)
    THEN "UndefinedColumn"
    ELSE IF ~NoDuplicates([i \in 1..Len(text.set) |-> text.set[i][1]])
    THEN "DuplicateAssignment"
    ELSE IF ~Bound([i \in 1..Len(text.set) |-> text.set[i][2]]
                   \o [i \in 1..Len(text.where) |-> text.where[i][2]], params)
    THEN "BindError"
    ELSE ""

\* UPDATE table SET set WHERE where RETURNING returning
ExecUpdate(text, params, tbl) ==
    IF UpdateError(text, params) # "" THEN {Failure(UpdateError(text, params), tbl)}
    ELSE LET hit == Matching(tbl, text.where, params)
             new == (tbl \ hit) \cup {Assigned(r, text.set, params) : r \in hit}
         IN IF Cardinality(new) # Cardinality(tbl) \/ ~UniqueIds(new)
            THEN {Failure("UniqueViolation", tbl)}
            ELSE {Result("", ProjectAll(a, text.returning), Cardinality(hit), new) :
                    a \in Arrays({Assigned(r, text.set, params) : r \in hit}, <<>>)}

WhereError(text, params, extra) ==
    IF text.whereKw /\ text.where = <<>> THEN "SyntaxError"
    ELSE IF ~KnownColumns([i \in 1..Len(text.where) |-> text.where[i][1]])
    THEN "UndefinedColumn"
    ELSE IF ~Bound([i \in 1..Len(text.where) |-> text.where[i][2]] \o extra, params)
    THEN "BindError"
    ELSE ""

\* DELETE FROM table WHERE where
ExecDelete(text, params, tbl) ==
    IF WhereError(text, params, <<>>) # ""
    THEN {Failure(WhereError(text, params, <<>>), tbl)}
    ELSE LET hit == IF text.whereKw THEN Matching(tbl, text.where, params) ELSE tbl
         IN {Result("", <<>>, Cardinality(hit), tbl \ hit)}

\* LIMIT and OFFSET: a literal number or a parameter.
Amount(clause, params) == IF clause[1] = "param" THEN params[clause[2]] ELSE clause[2]

ClausePlaceholders(clause) ==
    IF clause # <<>> /\ clause[1] = "param" THEN <<clause[2]>> ELSE <<>>

Slice(a, offset, limit) ==
    SubSeq(a, offset + 1, IF offset + limit < Len(a) THEN offset + limit ELSE Len(a))

SelectError(text, params) ==
    IF WhereError(text, params,
                  ClausePlaceholders(text.limit) \o ClausePlaceholders(text.offset)) # ""
    THEN WhereError(text, params,
                    ClausePlaceholders(text.limit) \o ClausePlaceholders(text.offset))
    ELSE IF ~KnownReturning(text.columns) THEN "UndefinedColumn"
    ELSE IF text.orderBy # <<>> /\ Column(text.orderBy[1]) = "?" THEN "UndefinedColumn"
    ELSE IF text.limit # <<>> /\ Amount(text.limit, params) < 0 THEN "InvalidLimit"
    ELSE IF text.offset # <<>> /\ Amount(text.offset, params) < 0 THEN "InvalidOffset"
    ELSE ""

\* SELECT columns FROM table [WHERE where] [ORDER BY ..] [LIMIT ..] [OFFSET ..]
ExecSelect(text, params, tbl) ==
    IF SelectError(text, params) # "" THEN {Failure(SelectError(text, params), tbl)}
    ELSE LET hit == IF text.whereKw THEN Matching(tbl, text.where, params) ELSE tbl
             offset == IF text.offset # <<>> THEN Amount(text.offset, params) ELSE 0
             limit == IF text.limit # <<>> THEN Amount(text.limit, params)
                      ELSE Cardinality(hit)
         IN {Result("", ProjectAll(Slice(a, offset, limit), text.columns),
                    Len(Slice(a, offset, limit)), tbl) :
               a \in Arrays(hit, text.orderBy)}

\* The decimal text of a bigint, as pg returns COUNT(*).
Digits == <<"0","1","2","3","4","5","6","7","8","9">>

RECURSIVE Decimal(_)
Decimal(n) ==
    IF n < 10 THEN <<Digits[n + 1]>>
    ELSE Decimal(n \div 10) \o <<Digits[(n % 10) + 1]>>

\* Number.parseInt(str, 10) of a string of digits
RECURSIVE parseInt(_)
parseInt(str) ==
    IF str = <<>> THEN 0
    ELSE 10 * parseInt(SubSeq(str, 1, Len(str) - 1))
         + (CHOOSE d \in 0..9 : Digits[d + 1] = str[Len(str)])

\* SELECT COUNT(*) FROM table [WHERE where]
ExecCount(text, params, tbl) ==
    IF WhereError(text, params, <<>>) # ""
    THEN {Failure(WhereError(text, params, <<>>), tbl)}
    ELSE LET hit == IF text.whereKw THEN Matching(tbl, text.where, params) ELSE tbl
         IN {Result("", <<[count |-> Decimal(Cardinality(hit))]>>, 1, tbl)}

\* pool.query(text, params) on table tbl at store time t: the possible results.
PoolQuery(query, tbl, ids, t) ==
    CASE query.text.kind = "INSERT" -> ExecInsert(query.text, query.params, tbl, ids, t)
      [] query.text.kind = "UPSERT" -> ExecUpsert(query.text, query.params, tbl, ids, t)
      [] query.text.kind = "UPDATE" -> ExecUpdate(query.text, query.params, tbl)
      [] query.text.kind = "DELETE" -> ExecDelete(query.text, query.params, tbl)
      [] query.text.kind = "COUNT" -> ExecCount(query.text, query.params, tbl)
      [] OTHER -> ExecSelect(query.text, query.params, tbl)

\* ------------------------------------------------------------------ inputs

\* The ids of rows: what a caller supplies and what the store generates.
Ids == {1, 2}

Names == {"a", "b"}

\* Timestamps a caller supplies in a Statement (earlier than every clock value).
Stamps == {0}

Optional(k, vals) == {<<>>} \cup {<< <<k, v>> >> : v \in vals}

\* Write Statements: any of id, name, createdAt, updatedAt.
WriteStmts ==
    {a \o b \o c \o d : a \in Optional(kId, Ids), b \in Optional(kName, Names),
                        c \in Optional(kCreatedAt, Stamps),
                        d \in Optional(kUpdatedAt, Stamps)}

\* Write Statements of update: any of id, name, updatedAt.
UpdateStmts ==
    {a \o b \o d : a \in Optional(kId, Ids), b \in Optional(kName, Names),
                   d \in Optional(kUpdatedAt, Stamps)}

\* Filter Statements: any of id, name; the empty Statement included.
Wheres == {a \o b : a \in Optional(kId, Ids), b \in Optional(kName, Names)}

\* ------------------------------------------------------------------- state

VARIABLES
    store,   \* the rows of the table
    now,     \* the value Date.now() returns
    last,    \* the caller's settled call: its arguments, the queries it sent, its outcome
    pending  \* the paginate call suspended between its count query and its data query

vars == <<store, now, last, pending, returnFields, accessor, users, res, walk>>

NoArgs == [stmt |-> <<>>, where |-> <<>>]

NoPage == [totalCount |-> 0, totalPages |-> 0, currentPage |-> 0, pageSize |-> 0]

\* A settled call.  err is "" when the promise resolved; rows is the value it
\* resolved to: <<>> for undefined, <<row>> for a row, the array for list and find,
\* the data of paginate; count is the number del resolved to; page is the rest of
\* the envelope of paginate.  before is the table when the call sent its first
\* query, during the table when paginate sent its data query, writes the number
\* of writes of other callers between the two.  after is the call of the same
\* caller that settled right before this one was issued, when this one is a get
\* that follows a del.
Call(op, args, t, sent, err, rows, count, before) ==
    [op |-> op, args |-> args, t |-> t, sent |-> sent, err |-> err,
     rows |-> rows, count |-> count, before |-> before,
     page |-> NoPage, during |-> {}, writes |-> 0,
     after |-> [op |-> "none", where |-> <<>>, err |-> ""]]

NoCall == Call("none", NoArgs, 0, <<>>, "", <<>>, 0, {})

NoPending ==
    [active |-> FALSE, options |-> <<>>, sent |-> <<>>, totalCount |-> 0,
     totalPages |-> 0, before |-> {}, writes |-> 0]

\* result.rows[0]
First(rows) == IF rows = <<>> THEN <<>> ELSE <<rows[1]>>

Init ==
    /\ store = {}
    /\ now = 1
    /\ last = NoCall
    /\ pending = NoPending
    /\ returnFields = DefaultReturnFields
    /\ accessor = GenericAccessor
    /\ users = SeedUsers
    /\ res = NoResponse
    /\ walk = NoWalk

\* The caller has no settled call to take and may issue the next one.
Ready == last.op = "none"

\* Date.now() returns now; the clock moves on between calls and never runs
\* backwards.
Tick ==
    /\ Ready
    /\ now < MaxClock
    /\ now' = now + 1
    /\ UNCHANGED <<store, last, pending, returnFields, accessor, users, res, walk>>

\* A variant of create: a query the store rejected is sent once more.
createRetrying(stmt) ==
    LET query == createQuery(stmt, now)
    IN \E first \in PoolQuery(query, store, Ids, now) :
        IF first.err = ""
        THEN /\ store' = first.table
             /\ last' = Call("create", [stmt |-> stmt, where |-> <<>>], now, <<query>>,
                             "", First(first.rows), 0, store)
             /\ UNCHANGED <<now, pending, returnFields, accessor, users, res, walk>>
        ELSE \E result \in PoolQuery(query, first.table, Ids, now) :
             /\ store' = result.table
             /\ last' = Call("create", [stmt |-> stmt, where |-> <<>>], now,
                             <<query, query>>, result.err,
                             IF result.err = "" THEN First(result.rows) ELSE <<>>,
                             0, store)
             /\ UNCHANGED <<now, pending, returnFields, accessor, users, res, walk>>

create(stmt) ==
    LET query == createQuery(stmt, now)
    IN \E result \in PoolQuery(query, store, Ids, now) :
        /\ store' = result.table
        /\ last' = Call("create", [stmt |-> stmt, where |-> <<>>], now, <<query>>,
                        result.err, IF result.err = "" THEN First(result.rows) ELSE <<>>,
                        0, store)
        /\ UNCHANGED <<now, pending, returnFields, accessor, users, res, walk>>

update(stmt, where) ==
    LET query == updateQuery(stmt, where, now)
    IN \E result \in PoolQuery(query, store, Ids, now) :
        /\ store' = result.table
        /\ last' = Call("update", [stmt |-> stmt, where |-> where], now, <<query>>,
                        IF result.err # "" THEN result.err
                        ELSE IF Len(result.rows) = 0 THEN "NotFound" ELSE "",
                        IF result.err = "" THEN First(result.rows) ELSE <<>>,
                        0, store)
        /\ UNCHANGED <<now, pending, returnFields, accessor, users, res, walk>>

upsert(stmt) ==
    LET query == upsertQuery(stmt, now)
    IN \E result \in PoolQuery(query, store, Ids, now) :
        /\ store' = result.table
        /\ last' = Call("upsert", [stmt |-> stmt, where |-> <<>>], now, <<query>>,
                        result.err, IF result.err = "" THEN First(result.rows) ELSE <<>>,
                        0, store)
        /\ UNCHANGED <<now, pending, returnFields, accessor, users, res, walk>>

get(where) ==
    LET query == getQuery(where)
    IN \E result \in PoolQuery(query, store, Ids, now) :
        /\ store' = result.table
        /\ last' = [Call("get", [stmt |-> <<>>, where |-> where], now, <<query>>,
                         result.err,
                         IF result.err = "" THEN First(result.rows) ELSE <<>>,
                         0, store)
                    EXCEPT !.after = [op |-> last.op, where |-> last.args.where,
                                      err |-> last.err]]
        /\ UNCHANGED <<now, pending, returnFields, accessor, users, res, walk>>

\* list(where?): optWhere is <<>> for an omitted where, <<where>> otherwise.
list(optWhere) ==
    LET query == listQuery(optWhere)
    IN \E result \in PoolQuery(query, store, Ids, now) :
        /\ store' = result.table
        /\ last' = Call("list", [stmt |-> <<>>, where |-> optWhere], now, <<query>>,
                        result.err, IF result.err = "" THEN result.rows ELSE <<>>,
                        0, store)
        /\ UNCHANGED <<now, pending, returnFields, accessor, users, res, walk>>

find(where) ==
    LET query == findQuery(where)
    IN \E result \in PoolQuery(query, store, Ids, now) :
        /\ store' = result.table
        /\ last' = Call("find", [stmt |-> <<>>, where |-> where], now, <<query>>,
                        result.err, IF result.err = "" THEN result.rows ELSE <<>>,
                        0, store)
        /\ UNCHANGED <<now, pending, returnFields, accessor, users, res, walk>>

\* return result.rowCount ?? 0
del(where) ==
    LET query == delQuery(where)
    IN \E result \in PoolQuery(query, store, Ids, now) :
        /\ store' = result.table
        /\ last' = Call("del", [stmt |-> <<>>, where |-> where], now, <<query>>,
                        result.err, <<>>,
                        IF result.err = "" THEN result.rowCount ELSE 0, store)
        /\ UNCHANGED <<now, pending, returnFields, accessor, users, res, walk>>

Create == Ready /\ \E stmt \in WriteStmts : create(stmt)

Update == Ready /\ \E stmt \in UpdateStmts, where \in Wheres : update(stmt, where)

Upsert == Ready /\ \E stmt \in WriteStmts : upsert(stmt)

\* The caller issues a get when it is ready, or right after its del settled.
Get == (Ready \/ last.op = "del") /\ \E where \in Wheres : get(where)

List == Ready /\ \E optWhere \in {<<>>} \cup {<<w>> : w \in Wheres} : list(optWhere)

Find == Ready /\ \E where \in Wheres : find(where)

Del == Ready /\ \E where \in Wheres : del(where)

\* The caller takes the settled result and is ready for its next call.
Continue ==
    /\ ~Ready
    /\ last' = NoCall
    /\ UNCHANGED <<store, now, pending, returnFields, accessor, users, res, walk>>

Next == Tick \/ Create \/ Update \/ Upsert \/ Get \/ List \/ Find \/ Del \/ Continue

Spec == Init /\ [][Next]_vars

\* --------------------------------------------------------------- paginate
\* paginate awaits its count query before it builds and sends its data query;
\* other callers of the same table may write in between.

\* Pages asked for run over 1..MaxPage, page sizes over 1..MaxPageSize.
MaxPage == 3

MaxPageSize == 2

\* The table holds up to MaxRows rows when paginate is called.
MaxRows == 5

\* Writes of other callers between the two queries of one paginate call.
MaxWrites == 1

\* Row i of the paginated table: two names, and creation times that repeat.
PageRow(i) ==
    [id |-> i, name |-> IF i % 2 = 1 THEN "a" ELSE "b",
     created_at |-> (i + 1) \div 2, updated_at |-> (i + 1) \div 2]

PageIds == 1..(MaxRows + 1)

PageWheres ==
    {<<>>, << <<>> >>, << << <<kName, "a">> >> >>, << << <<kName, "b">> >> >>,
     << << <<kId, 1>>, <<kName, "a">> >> >>}

PageOrders ==
    {<<>>, <<[field |-> kCreatedAt, direction |-> "ASC"]>>,
     <<[field |-> kId, direction |-> "DESC"]>>}

PaginateOptions ==
    [page : 1..MaxPage, pageSize : 1..MaxPageSize, where : PageWheres,
     orderBy : PageOrders]

InitPage ==
    /\ \E k \in 0..MaxRows : store = {PageRow(i) : i \in 1..k}
    /\ now = MaxRows
    /\ last = NoCall
    /\ pending = NoPending
    /\ returnFields = DefaultReturnFields
    /\ accessor = GenericAccessor
    /\ users = SeedUsers
    /\ res = NoResponse
    /\ walk = NoWalk

\* paginate up to the await of its count query
paginateCount(options) ==
    LET query == countQuery(options.where)
    IN \E result \in PoolQuery(query, store, PageIds, now) :
        /\ store' = result.table
        /\ IF result.err # ""
           THEN /\ last' = Call("paginate",
                                [stmt |-> <<>>, where |-> options.where,
                                 options |-> options],
                                now, <<query>>, result.err, <<>>, 0, store)
                /\ pending' = NoPending
           ELSE /\ pending' =
                     [active |-> TRUE, options |-> options, sent |-> <<query>>,
                      totalCount |-> parseInt(result.rows[1].count),
                      totalPages |-> totalPagesOf(parseInt(result.rows[1].count),
                                                  options.pageSize),
                      before |-> store, writes |-> 0]
                /\ UNCHANGED last
        /\ UNCHANGED <<now, returnFields, accessor, users, res, walk>>

\* paginate from its count result on: the data query and the envelope
paginateData ==
    LET options == pending.options
        query == dataQuery(options.page, options.pageSize, options.where,
                           options.orderBy)
    IN \E result \in PoolQuery(query, store, PageIds, now) :
        /\ store' = result.table
        /\ last' = [Call("paginate",
                         [stmt |-> <<>>, where |-> options.where, options |-> options],
                         now, pending.sent \o <<query>>, result.err,
                         IF result.err = "" THEN result.rows ELSE <<>>,
                         0, pending.before)
                    EXCEPT !.page = IF result.err # "" THEN NoPage
                                    ELSE [totalCount |-> pending.totalCount,
                                          totalPages |-> pending.totalPages,
                                          currentPage |-> options.page,
                                          pageSize |-> options.pageSize],
                           !.during = store,
                           !.writes = pending.writes]
        /\ pending' = NoPending
        /\ UNCHANGED <<now, returnFields, accessor, users, res, walk>>

\* A query of another caller while paginate is suspended.
OtherQuery(query) ==
    /\ pending.active
    /\ pending.writes < MaxWrites
    /\ \E result \in PoolQuery(query, store, PageIds, now) :
        /\ store' = result.table
        /\ pending' = [pending EXCEPT !.writes = @ + 1]
    /\ UNCHANGED <<now, last, returnFields, accessor, users, res, walk>>

PaginateCount ==
    /\ Ready
    /\ ~pending.active
    /\ \E options \in PaginateOptions : paginateCount(options)

PaginateData == pending.active /\ paginateData

OtherCreate ==
    OtherQuery(createQuery(<< <<kId, MaxRows + 1>>, <<kName, "a">> >>, now))

OtherUpdate ==
    OtherQuery(updateQuery(<< <<kName, "b">> >>, << <<kId, 1>> >>, now))

OtherDel == \E where \in {<< <<kId, 1>> >>, << <<kName, "b">> >>} : OtherQuery(delQuery(where))

NextPage ==
    PaginateCount \/ OtherCreate \/ OtherUpdate \/ OtherDel \/ PaginateData \/ Continue

SpecPage == InitPage /\ [][NextPage]_vars

\* ------------------------------------------------------------- properties
\* What the properties say about a call is read from last: the arguments, the
\* table before the call, the queries sent and the outcome.

\* The row field a Statement key addresses.
FieldOf(key) ==
    CASE key = kId -> "id"
      [] key = kName -> "name"
      [] key = kCreatedAt -> "created_at"
      [] key = kUpdatedAt -> "updated_at"

\* row satisfies every equality of where
Satisfies(row, where) ==
    \A i \in 1..Len(where) : row[FieldOf(where[i][1])] = where[i][2]

Satisfying(rows, where) == {r \in rows : Satisfies(r, where)}

IdsOf(rows) == {r.id : r \in rows}

\* C1: update(stmt, where) with a where that matches no row rejects with NotFound
\* ("Update failed: No rows found matching criteria"), and every row of the
\* table is the same after the call as before it.
C1_UpdateNoMatchNotFound ==
    (last.op = "update" /\ Satisfying(last.before, last.args.where) = {})
        => (last.err = "NotFound" /\ store = last.before)

\* C1, for a where with at least one equality: NotFound and an unchanged table.
C1_UpdateNoMatchNotFoundNonEmptyWhere ==
    (/\ last.op = "update"
     /\ last.args.where # <<>>
     /\ Satisfying(last.before, last.args.where) = {})
        => (last.err = "NotFound" /\ store = last.before)

C1_NoMatchRejected ==
    /\ last.op = "update"
    /\ last.args.where # <<>>
    /\ last.before # {}
    /\ last.err = "NotFound"

\* C2 as claimed: for every write Statement and every where that matches at
\* least one row, update changes no row's id.
C2_UpdateNeverChangesId ==
    (last.op = "update" /\ Satisfying(last.before, last.args.where) # {})
        => IdsOf(store) = IdsOf(last.before)

\* C2, what update does to ids: it changes no row's id when stmt carries no id
\* key; when stmt carries an id and update resolves, the rows matching where have
\* that id afterwards and the other rows keep theirs (SET is built from every
\* key of stmt, id included).
C2_UpdateChangesIdOnlyWhenGiven ==
    last.op = "update" =>
        /\ ~HasKey(last.args.stmt, kId) =>
              /\ IdsOf(store) = IdsOf(last.before)
              /\ Cardinality(store) = Cardinality(last.before)
        /\ (HasKey(last.args.stmt, kId) /\ last.err = "") =>
              /\ Satisfying(last.before, last.args.where) # {}
              /\ IdsOf(store) =
                    IdsOf(last.before \ Satisfying(last.before, last.args.where))
                    \cup {ValueOf(last.args.stmt, kId)}
        /\ last.err # "" => store = last.before

C2_UpdatedWithoutId ==
    /\ last.op = "update"
    /\ last.err = ""
    /\ ~HasKey(last.args.stmt, kId)
    /\ Satisfying(last.before, last.args.where) # {}
    /\ store # last.before

\* C3: with a non-decreasing clock, after any sequence of create/update/upsert
\* calls, an update that resolves sets the updatedAt of every row it updated (the
\* rows matching where, the returned row among them) to the call's current time,
\* which is >= the row's updatedAt before the call, whatever updatedAt stmt
\* carries; a where with an equality that matches a row makes update resolve
\* unless the store refuses a duplicate id.
C3_UpdateStampsUpdatedAt ==
    last.op = "update" =>
        /\ last.err = "" =>
              /\ Len(last.rows) = 1
              /\ last.rows[1] \in store
              /\ last.rows[1].updated_at = last.t
              /\ Cardinality(store) = Cardinality(last.before)
              /\ \A r \in Satisfying(last.before, last.args.where) :
                    /\ r.updated_at <= last.t
                    /\ \E q \in store :
                          /\ q.updated_at = last.t
                          /\ q.created_at = r.created_at
                          /\ q.id = IF HasKey(last.args.stmt, kId)
                                    THEN ValueOf(last.args.stmt, kId) ELSE r.id
              /\ \A q \in store \ last.before : q.updated_at = last.t
        /\ (/\ last.args.where # <<>>
            /\ Satisfying(last.before, last.args.where) # {})
              => last.err \in {"", "UniqueViolation"}
        /\ \A r \in store : r.updated_at <= now

C3_UpdatedAtAdvanced ==
    /\ last.op = "update"
    /\ last.err = ""
    /\ HasKey(last.args.stmt, kUpdatedAt)
    /\ \E r \in Satisfying(last.before, last.args.where) : r.updated_at < last.t

\* C4: upsert(stmt) with the id of an existing row updates that row in place (the
\* number of rows unchanged, the row keeps its id and createdAt, takes the other
\* fields of stmt, updatedAt the call's current time); when no row has that id,
\* exactly one new row is inserted and no existing row changes.
C4_UpsertInPlaceOrInsert ==
    (last.op = "upsert" /\ HasKey(last.args.stmt, kId)
                        /\ HasKey(last.args.stmt, kName)) =>
        LET id == ValueOf(last.args.stmt, kId)
            old == {r \in last.before : r.id = id}
        IN IF old # {}
           THEN /\ last.err = ""
                /\ Cardinality(store) = Cardinality(last.before)
                /\ last.before \ old \subseteq store
                /\ \E q \in store : \E r \in old :
                      /\ q.id = id
                      /\ q.created_at = r.created_at
                      /\ q.name = ValueOf(last.args.stmt, kName)
                      /\ q.updated_at = last.t
           ELSE /\ last.err = ""
                /\ last.before \subseteq store
                /\ Cardinality(store) = Cardinality(last.before) + 1
                /\ \E q \in store : q.id = id

\* C5: for every Statement that carries no createdAt, the row create inserts has
\* createdAt and updatedAt both set to the one time read at the start of the call.
C5_CreateStampsBoth ==
    (last.op = "create" /\ last.err = "" /\ ~HasKey(last.args.stmt, kCreatedAt)) =>
        /\ Len(last.rows) = 1
        /\ last.rows[1] \in store \ last.before
        /\ store = last.before \cup {last.rows[1]}
        /\ last.rows[1].created_at = last.rows[1].updated_at
        /\ last.rows[1].updated_at = last.t

C5_CreatedWithCallerUpdatedAt ==
    /\ last.op = "create"
    /\ last.err = ""
    /\ ~HasKey(last.args.stmt, kCreatedAt)
    /\ HasKey(last.args.stmt, kUpdatedAt)
    /\ ValueOf(last.args.stmt, kUpdatedAt) # last.t
    /\ Len(last.rows) = 1

\* The value an INSERT binds to a column: the parameter of the column's placeholder.
BoundTo(query, column) ==
    {query.params[query.text.placeholders[i]] :
        i \in {j \in 1..Len(query.text.fields) : query.text.fields[j] = column}}

\* C6: the INSERT that create and upsert send binds created_at to the caller's
\* createdAt when stmt carries one and to the current time otherwise, and binds
\* updated_at to the current time, never to an updatedAt of stmt; the row create
\* inserts holds these two values.
C6_StampsWritten ==
    last.op \in {"create", "upsert"} =>
        /\ Len(last.sent) = 1
        /\ BoundTo(last.sent[1], colCreatedAt) =
              {IF HasKey(last.args.stmt, kCreatedAt)
               THEN ValueOf(last.args.stmt, kCreatedAt) ELSE last.t}
        /\ BoundTo(last.sent[1], colUpdatedAt) = {last.t}
        /\ (last.op = "create" /\ last.err = "") =>
              /\ Len(last.rows) = 1
              /\ last.rows[1] \in store
              /\ last.rows[1].created_at =
                    IF HasKey(last.args.stmt, kCreatedAt)
                    THEN ValueOf(last.args.stmt, kCreatedAt) ELSE last.t
              /\ last.rows[1].updated_at = last.t

C6_CallerStampsGiven ==
    /\ last.op = "upsert"
    /\ HasKey(last.args.stmt, kCreatedAt)
    /\ HasKey(last.args.stmt, kUpdatedAt)
    /\ ValueOf(last.args.stmt, kCreatedAt) # last.t
    /\ ValueOf(last.args.stmt, kUpdatedAt) # last.t

\* C7: del(where) resolves to 0 when no row matches where and otherwise to the
\* number of rows it removed, all the rows matching every equality of where; a
\* get with the same where issued right after resolves to undefined.
C7_DelCountsThenGetUndefined ==
    /\ last.op = "del" =>
          /\ last.err = ""
          /\ last.count = Cardinality(Satisfying(last.before, last.args.where))
          /\ store = last.before \ Satisfying(last.before, last.args.where)
    /\ (last.op = "get" /\ last.after.op = "del"
                        /\ last.after.where = last.args.where) =>
          /\ last.err = ""
          /\ last.rows = <<>>

\* C7, for a where with at least one equality.
C7_DelCountsThenGetUndefinedNonEmptyWhere ==
    /\ (last.op = "del" /\ last.args.where # <<>>) =>
          /\ last.err = ""
          /\ last.count = Cardinality(Satisfying(last.before, last.args.where))
          /\ store = last.before \ Satisfying(last.before, last.args.where)
    /\ (last.op = "get" /\ last.after.op = "del"
                        /\ last.args.where # <<>>
                        /\ last.after.where = last.args.where) =>
          /\ last.err = ""
          /\ last.rows = <<>>
          /\ last.after.err = ""

\* The rows an optional where of paginate selects: every row when where is
\* omitted or empty.
Selected(rows, optWhere) ==
    IF optWhere = <<>> THEN rows ELSE Satisfying(rows, optWhere[1])

Min(a, b) == IF a < b THEN a ELSE b

Max(a, b) == IF a > b THEN a ELSE b

\* A settled paginate call that resolved.
Paginated == last.op = "paginate" /\ last.err = ""

\* C8: for page >= 1 and pageSize >= 1, totalCount is the number of all rows
\* matching where when the count query ran (not the length of the page), and
\* totalPages = ceil(totalCount / pageSize): totalPages * pageSize >= totalCount
\* > (totalPages - 1) * pageSize when totalCount > 0, totalPages = 0 when
\* totalCount = 0; currentPage and pageSize echo the request.
C8_TotalsFromCount ==
    Paginated =>
        LET options == last.args.options
            envelope == last.page
        IN /\ envelope.totalCount =
                 Cardinality(Selected(last.before, options.where))
           /\ envelope.totalCount > 0 =>
                 /\ envelope.totalPages * options.pageSize >= envelope.totalCount
                 /\ envelope.totalCount > (envelope.totalPages - 1) * options.pageSize
           /\ envelope.totalCount = 0 => envelope.totalPages = 0
           /\ envelope.currentPage = options.page
           /\ envelope.pageSize = options.pageSize

C8_CountExceedsPage ==
    /\ Paginated
    /\ last.writes = 0
    /\ last.page.totalCount > Len(last.rows)
    /\ last.page.totalCount % last.args.options.pageSize # 0
    /\ Len(last.rows) > 0

\* The column and direction paginate orders by.
OrderOf(optOrderBy) ==
    IF optOrderBy = <<>> THEN <<"created_at", "DESC">>
    ELSE <<FieldOf(optOrderBy[1].field), optOrderBy[1].direction>>

\* The arrays that hold the rows of a set, each once, in the order of column and
\* direction; rows with the same value in the column come in any order.
RECURSIVE Arrangements(_, _)
Arrangements(rows, order) ==
    IF rows = {} THEN {<<>>}
    ELSE UNION {{<<r>> \o a : a \in Arrangements(rows \ {r}, order)} :
                  r \in {x \in rows :
                            \A y \in rows :
                               IF order[2] = "DESC" THEN x[order[1]] >= y[order[1]]
                               ELSE x[order[1]] <= y[order[1]]}}

Sorted(seq, order) ==
    \A i, j \in 1..Len(seq) :
        i < j => IF order[2] = "DESC"
                 THEN seq[i][order[1]] >= seq[j][order[1]]
                 ELSE seq[i][order[1]] <= seq[j][order[1]]

\* C9: with no write between its two queries, paginate returns the rows at
\* positions (page-1)*pageSize .. page*pageSize-1 of the ordered matching rows,
\* so data.length = min(pageSize, max(0, totalCount - (page-1)*pageSize)); over 5
\* rows with pageSize 2, page 1 has 2 rows, page 3 has 1 row, totalPages is 3.
C9_PageIsWindow ==
    (Paginated /\ last.writes = 0) =>
        LET options == last.args.options
            first == (options.page - 1) * options.pageSize
            matching == Selected(last.before, options.where)
        IN /\ Len(last.rows) =
                 Min(options.pageSize, Max(0, last.page.totalCount - first))
           /\ \E ordered \in {a \in Arrangements(matching, OrderOf(options.orderBy)) :
                                Sorted(a, OrderOf(options.orderBy))} :
                 last.rows = SubSeq(ordered, first + 1,
                                    Min(first + options.pageSize, Len(ordered)))
           /\ (Cardinality(last.before) = 5 /\ options.pageSize = 2
                                            /\ options.where = <<>>) =>
                 /\ last.page.totalPages = 3
                 /\ options.page = 1 => Len(last.rows) = 2
                 /\ options.page = 3 => Len(last.rows) = 1

C9_LastPageOfFive ==
    /\ Paginated
    /\ last.writes = 0
    /\ Cardinality(last.before) = 5
    /\ last.args.options.where = <<>>
    /\ last.args.options.orderBy = <<>>
    /\ last.args.options.pageSize = 2
    /\ last.args.options.page = 3
    /\ Len(last.rows) = 1
    /\ last.page.totalPages = 3

\* The values of an optional where of paginate, in key order.
ValuesOf(optWhere) == IF optWhere = <<>> THEN <<>> ELSE ObjectValues(optWhere[1])

\* C10: the count query and the data query of paginate carry the same WHERE
\* clause built from where; the count query is sent with exactly the where values,
\* the data query with the where values followed by pageSize and then offset, its
\* LIMIT and OFFSET placeholders numbered n+1 and n+2 for n where fields.
C10_SameFilterBothQueries ==
    (last.op = "paginate" /\ Len(last.sent) = 2) =>
        LET options == last.args.options
            count == last.sent[1]
            data == last.sent[2]
            n == Len(ValuesOf(options.where))
        IN /\ count.text.kind = "COUNT"
           /\ data.text.kind = "SELECT"
           /\ count.text.whereKw = data.text.whereKw
           /\ count.text.where = data.text.where
           /\ Len(count.text.where) = n
           /\ \A i \in 1..n :
                 /\ FieldOf(options.where[1][i][1]) = Column(count.text.where[i][1])
                 /\ count.params[count.text.where[i][2]] = options.where[1][i][2]
           /\ count.params = ValuesOf(options.where)
           /\ data.params = ValuesOf(options.where)
                            \o <<options.pageSize,
                                 (options.page - 1) * options.pageSize>>
           /\ data.text.limit = <<"param", n + 1>>
           /\ data.text.offset = <<"param", n + 2>>

C10_FilteredPage ==
    /\ Paginated
    /\ Len(last.sent) = 2
    /\ Len(ValuesOf(last.args.options.where)) = 2
    /\ last.args.options.page > 1
    /\ last.page.totalCount > 0

\* The column identifier a Statement key is written as in the SQL text.
SnakeOf(key) ==
    CASE key = kId -> <<"i","d">>
      [] key = kName -> <<"n","a","m","e">>
      [] key = kCreatedAt -> <<"c","r","e","a","t","e","d","_","a","t">>
      [] key = kUpdatedAt -> <<"u","p","d","a","t","e","d","_","a","t">>
      [] key = kLastLoginAt -> <<"l","a","s","t","_","l","o","g","i","n","_","a","t">>
      [] OTHER -> key

\* C11: the data query of paginate is written with ORDER BY created_at DESC when
\* orderBy is omitted and with ORDER BY <snake_cased orderBy.field> <the requested
\* direction> when orderBy is given, and the data rows come in that order.
C11_DataRowsOrdered ==
    (last.op = "paginate" /\ Len(last.sent) = 2) =>
        LET options == last.args.options
            data == last.sent[2]
        IN /\ data.text.orderBy =
                 IF options.orderBy = <<>>
                 THEN <<SnakeOf(kCreatedAt), "DESC">>
                 ELSE <<SnakeOf(options.orderBy[1].field),
                        options.orderBy[1].direction>>
           /\ last.err = "" =>
                 /\ Sorted(last.rows, OrderOf(options.orderBy))
                 /\ \A i \in 1..Len(last.rows) : last.rows[i] \in last.during

C11_AscendingPage ==
    /\ Paginated
    /\ last.args.options.orderBy # <<>>
    /\ last.args.options.orderBy[1].direction = "ASC"
    /\ Len(last.rows) = 2
    /\ last.rows[1].created_at < last.rows[2].created_at

C11_DefaultDescendingPage ==
    /\ Paginated
    /\ last.args.options.orderBy = <<>>
    /\ Len(last.rows) = 2
    /\ last.rows[1].created_at > last.rows[2].created_at

\* C12: in every interleaving of a paginate call with writes of other callers on
\* the same table, the count query has completed when the data query is issued
\* (the call is suspended with exactly its count query sent, and settles with the
\* count query first and the data query second), and the reported totalCount is
\* the number of rows matching where in the table as it was when the count query
\* ran, whatever was written in between.
C12_CountBeforeDataUnderWrites ==
    /\ pending.active =>
          /\ Len(pending.sent) = 1
          /\ pending.sent[1].text.kind = "COUNT"
          /\ pending.totalCount =
                Cardinality(Selected(pending.before, pending.options.where))
    /\ (last.op = "paginate" /\ Len(last.sent) = 2) =>
          /\ last.sent[1].text.kind = "COUNT"
          /\ last.sent[2].text.kind = "SELECT"
          /\ last.err = "" =>
                last.page.totalCount =
                    Cardinality(Selected(last.before, last.args.options.where))

C12_CountStaleAfterWrite ==
    /\ Paginated
    /\ last.writes > 0
    /\ last.page.totalCount =
          Cardinality(Selected(last.before, last.args.options.where))
    /\ last.page.totalCount #
          Cardinality(Selected(last.during, last.args.options.where))

\* ------------------------------------------------------- Statements at large
\* The operations called with Statements whose keys come in any order, convert
\* to the same column name (createdAt and created_at), or name no column of
\* the table.

\* Entries of a Statement: a camelCase key carries 0 where its snake_case twin
\* carries 5.
QueryEntries ==
    {<<kId, v>> : v \in Ids}
    \cup {<<kName, "a">>, <<kCreatedAt, 0>>, <<created_at, 5>>, <<kUpdatedAt, 0>>, <<updated_at, 5>>,
          <<kLastLoginAt, 0>>}

\* Two keys that convert to the same column name, in both orders.
TwinEntries ==
    {<< <<kCreatedAt, 0>>, <<created_at, 5>> >>, << <<created_at, 5>>, <<kCreatedAt, 0>> >>,
     << <<kUpdatedAt, 0>>, <<updated_at, 5>> >>, << <<updated_at, 5>>, <<kUpdatedAt, 0>> >>}

\* Statements of up to two entries with different keys, and a name with twins.
QueryStmts ==
    {<<>>} \cup {<<e>> : e \in QueryEntries}
    \cup {s \in QueryEntries \X QueryEntries : s[1][1] # s[2][1]}
    \cup {<< <<kName, "a">> >> \o s : s \in TwinEntries}

QueryFilterEntries ==
    {<<kId, v>> : v \in Ids}
    \cup {<<kCreatedAt, 0>>, <<created_at, 5>>, <<kLastLoginAt, 0>>}

QueryWheres ==
    {<<>>} \cup {<<e>> : e \in QueryFilterEntries}
    \cup {s \in QueryFilterEntries \X QueryFilterEntries : s[1][1] # s[2][1]}

\* The where Statements of update: none, one and two equalities, and twins.
QueryUpdateWheres ==
    {<<>>, << <<kId, 1>> >>, << <<created_at, 5>>, <<kId, 2>> >>,
     << <<kCreatedAt, 0>>, <<created_at, 5>> >>}

QueryOptions ==
    [page : {1, 2}, pageSize : {1, 2},
     where : {<<>>} \cup {<<w>> : w \in QueryWheres},
     orderBy : {<<>>, <<[field |-> kLastLoginAt, direction |-> "ASC"]>>}]

\* No call of the caller is unsettled or suspended.
Idle == Ready /\ ~pending.active

QueryCreate == Idle /\ \E stmt \in QueryStmts : create(stmt)

QueryUpdate == Idle /\ \E stmt \in QueryStmts, where \in QueryUpdateWheres : update(stmt, where)

QueryUpsert == Idle /\ \E stmt \in QueryStmts : upsert(stmt)

QueryGet == Idle /\ \E where \in QueryWheres : get(where)

QueryList == Idle /\ \E optWhere \in {<<>>} \cup {<<w>> : w \in QueryWheres} : list(optWhere)

QueryFind == Idle /\ \E where \in QueryWheres : find(where)

QueryDel == Idle /\ \E where \in QueryWheres : del(where)

QueryPaginateCount ==
    /\ Ready
    /\ ~pending.active
    /\ \E options \in QueryOptions : paginateCount(options)

NextQuery ==
    \/ QueryCreate \/ QueryUpdate \/ QueryUpsert \/ QueryGet \/ QueryList
    \/ QueryFind \/ QueryDel \/ QueryPaginateCount \/ PaginateData \/ Continue

SpecQuery == Init /\ [][NextQuery]_vars

\* The Statement with the keys of obj in the same order and every value another
\* one (the values of the model's Statements are all below 6).
Revalued(obj) == [i \in 1..Len(obj) |-> <<obj[i][1], 6 + i>>]

RevaluedOpt(optObj) == IF optObj = <<>> THEN <<>> ELSE <<Revalued(optObj[1])>>

\* C13: every value of a Statement (write fields and where filters) and the
\* pageSize and offset of paginate reach the driver only as bound parameters: the
\* SQL text a call sent is the text its operation generates for the Statement
\* with the same keys in the same order and other values (at another time, and
\* for every other page and pageSize), and the store finds a parameter for every
\* placeholder and a placeholder for every parameter.
C13_TextIndependentOfValues ==
    /\ last.err # "BindError"
    /\ last.op \in {"create", "upsert"} =>
          LET s == Revalued(last.args.stmt)
              t == last.t + 1
          IN /\ last.op = "create" => createQuery(s, t).text = last.sent[1].text
             /\ last.op = "upsert" => upsertQuery(s, t).text = last.sent[1].text
    /\ last.op = "update" =>
          updateQuery(Revalued(last.args.stmt), Revalued(last.args.where),
                      last.t + 1).text = last.sent[1].text
    /\ last.op \in {"get", "find", "del"} =>
          LET w == Revalued(last.args.where)
          IN /\ last.op = "get" => getQuery(w).text = last.sent[1].text
             /\ last.op = "find" => findQuery(w).text = last.sent[1].text
             /\ last.op = "del" => delQuery(w).text = last.sent[1].text
    /\ last.op = "list" =>
          listQuery(RevaluedOpt(last.args.where)).text = last.sent[1].text
    /\ last.op = "paginate" =>
          LET w == RevaluedOpt(last.args.options.where)
          IN /\ countQuery(w).text = last.sent[1].text
             /\ Len(last.sent) = 2 =>
                   \A page \in 1..3, pageSize \in 1..3 :
                      dataQuery(page, pageSize, w, last.args.options.orderBy).text
                          = last.sent[2].text
    /\ (last.op = "paginate" /\ Len(last.sent) = 2) =>
          LET params == last.sent[2].params
              options == last.args.options
          IN /\ Len(params) >= 2
             /\ params[Len(params) - 1] = options.pageSize
             /\ params[Len(params)] = (options.page - 1) * options.pageSize

C13_UpdateWithTwoAndTwo ==
    /\ last.op = "update"
    /\ last.err = ""
    /\ Len(last.args.stmt) = 2
    /\ Len(last.args.where) = 2
    /\ store # last.before

\* The names of a sequence, each once, in the order of their first occurrence.
RECURSIVE FirstOccurrences(_)
FirstOccurrences(names) ==
    IF names = <<>> THEN <<>>
    ELSE LET n == Len(names)
             init == FirstOccurrences(SubSeq(names, 1, n - 1))
         IN IF \E i \in 1..Len(init) : init[i] = names[n]
            THEN init ELSE Append(init, names[n])

\* The columns a Statement writes or filters by, in field insertion order.
ColumnsOf(obj) == FirstOccurrences([i \in 1..Len(obj) |-> SnakeOf(obj[i][1])])

\* The value a Statement gives a column: that of the last key converting to it.
LastValue(obj, name) ==
    obj[CHOOSE k \in 1..Len(obj) :
            /\ SnakeOf(obj[k][1]) = name
            /\ \A m \in (k + 1)..Len(obj) : SnakeOf(obj[m][1]) # name][2]

\* { ...obj, key: value }: a key obj has keeps its place, a new key comes last.
WithKey(obj, key, value) ==
    IF \E k \in 1..Len(obj) : obj[k][1] = key
    THEN [k \in 1..Len(obj) |-> IF obj[k][1] = key THEN <<key, value>> ELSE obj[k]]
    ELSE obj \o << <<key, value>> >>

\* C14: in the query update(stmt, where) builds, the parameter array is
\* [setValues..., whereValues...] and every placeholder is paired with the value
\* of its own field: the i-th SET field uses $i and the j-th where field uses
\* $(s + j), s the number of SET fields with updated_at included.  The fields
\* are those of { ...stmt, updatedAt } after key conversion: a name once, at the
\* place of its first key, with the value of its last key.
C14_UpdatePlaceholdersPaired ==
    last.op = "update" =>
        LET query == last.sent[1]
            stamped == WithKey(last.args.stmt, kUpdatedAt, last.t)
            setFields == ColumnsOf(stamped)
            whereFields == ColumnsOf(last.args.where)
            s == Len(setFields)
        IN /\ query.text.set = [i \in 1..s |-> <<setFields[i], i>>]
           /\ query.text.where =
                 [j \in 1..Len(whereFields) |-> <<whereFields[j], s + j>>]
           /\ \E i \in 1..s : setFields[i] = SnakeOf(kUpdatedAt)
           /\ query.params =
                 [i \in 1..s |-> LastValue(stamped, setFields[i])]
                 \o [j \in 1..Len(whereFields) |->
                        LastValue(last.args.where, whereFields[j])]
           /\ \A i \in 1..s :
                 query.params[query.text.set[i][2]] = LastValue(stamped, setFields[i])
           /\ \A j \in 1..Len(whereFields) :
                 query.params[query.text.where[j][2]] =
                     LastValue(last.args.where, whereFields[j])
           /\ last.err = "" =>
                 \A i \in 1..s :
                     last.rows[1][Column(setFields[i])]
                         = LastValue(stamped, setFields[i])

C14_UpdateSetTwoWhereTwo ==
    /\ last.op = "update"
    /\ last.err = ""
    /\ Len(last.sent[1].text.set) = 3
    /\ Len(last.sent[1].text.where) = 2
    /\ Len(last.sent[1].params) = 5
    /\ store # last.before

\* C15: in the INSERT create and upsert build, the column list, the placeholder
\* list and the parameter array have the same length and the i-th column's value
\* is the i-th parameter, in field insertion order with created_at and updated_at
\* included, also when two keys of stmt convert to the same column name (the name
\* is then listed once, at the place of its first key, with the value of its last
\* key); the row create inserts holds the i-th parameter in the i-th column.
C15_InsertColumnsPaired ==
    last.op \in {"create", "upsert"} =>
        LET query == last.sent[1]
            stmt == last.args.stmt
            createdAt ==
                IF \E k \in 1..Len(stmt) : stmt[k][1] = kCreatedAt
                THEN stmt[CHOOSE k \in 1..Len(stmt) : stmt[k][1] = kCreatedAt][2]
                ELSE last.t
            stamped == WithKey(WithKey(stmt, kCreatedAt, createdAt), kUpdatedAt, last.t)
            columns == ColumnsOf(stamped)
            n == Len(columns)
        IN /\ query.text.fields = columns
           /\ query.text.placeholders = [i \in 1..n |-> i]
           /\ Len(query.params) = n
           /\ \A i \in 1..n : query.params[i] = LastValue(stamped, columns[i])
           /\ \E i \in 1..n : columns[i] = SnakeOf(kCreatedAt)
           /\ \E i \in 1..n : columns[i] = SnakeOf(kUpdatedAt)
           /\ last.err \notin {"SyntaxError", "DuplicateColumn", "BindError"}
           /\ (last.op = "create" /\ last.err = "") =>
                 \A i \in 1..n : last.rows[1][Column(columns[i])] = query.params[i]

C15_TwinKeysInserted ==
    /\ last.op = "create"
    /\ last.err = ""
    /\ Len(last.args.stmt) = 3
    /\ Len(last.sent[1].text.fields) = 3
    /\ last.rows[1].created_at = 5

\* The rows of an array, as a set.
RowsOf(rows) == {rows[i] : i \in 1..Len(rows)}

\* C16: list() with where omitted and list({}) with an empty where apply no
\* filter and resolve to every row of the table, each once; neither rejects on
\* an empty table, where the result is the empty array.
C16_ListUnfiltered ==
    (last.op = "list" /\ last.args.where \in {<<>>, << <<>> >>}) =>
        /\ last.err = ""
        /\ ~last.sent[1].text.whereKw
        /\ last.sent[1].params = <<>>
        /\ RowsOf(last.rows) = last.before
        /\ Len(last.rows) = Cardinality(last.before)
        /\ last.before = {} => last.rows = <<>>
        /\ store = last.before

C16_ListEmptyWhereTwoRows ==
    /\ last.op = "list"
    /\ last.args.where = << <<>> >>
    /\ Len(last.rows) = 2

C16_ListEmptyTable ==
    /\ last.op = "list"
    /\ last.args.where = << <<>> >>
    /\ last.before = {}
    /\ last.err = ""

\* C17: for every non-empty where, find(where) resolves to exactly the rows whose
\* columns equal every value of where (AND of equalities), each once, no more
\* and no fewer, and list(where) resolves to the same set of rows.
C17_FindExactlyMatching ==
    /\ (last.op = "find" /\ last.args.where # <<>>) =>
          /\ last.err = ""
          /\ RowsOf(last.rows) = Satisfying(last.before, last.args.where)
          /\ Len(last.rows) = Cardinality(RowsOf(last.rows))
          /\ store = last.before
    /\ (last.op = "list" /\ last.args.where # <<>> /\ last.args.where[1] # <<>>) =>
          /\ last.err = ""
          /\ RowsOf(last.rows) = Satisfying(last.before, last.args.where[1])
          /\ Len(last.rows) = Cardinality(RowsOf(last.rows))
          /\ \E found \in PoolQuery(findQuery(last.args.where[1]), last.before, Ids,
                                    last.t) :
                found.err = "" /\ RowsOf(found.rows) = RowsOf(last.rows)

C17_FindSomeNotAll ==
    /\ last.op = "find"
    /\ Len(last.args.where) = 2
    /\ Len(last.rows) = 1
    /\ Cardinality(last.before) = 2

\* C18: get(where) resolves to a row satisfying every equality of where when
\* such a row exists and to undefined, without an error, when none exists; get,
\* list, find and del never turn a no-match into an error.
C18_GetRowOrUndefined ==
    /\ last.op = "get" =>
          IF Satisfying(last.before, last.args.where) # {}
          THEN /\ last.err = ""
               /\ Len(last.rows) = 1
               /\ last.rows[1] \in Satisfying(last.before, last.args.where)
          ELSE /\ last.err = ""
               /\ last.rows = <<>>
    /\ (/\ last.op \in {"find", "del"}
        /\ Satisfying(last.before, last.args.where) = {}) =>
          /\ last.err = ""
          /\ last.rows = <<>>
          /\ last.count = 0
    /\ (/\ last.op = "list"
        /\ Selected(last.before, last.args.where) = {}) =>
          /\ last.err = ""
          /\ last.rows = <<>>

\* C18, for a where with at least one equality.
C18_GetRowOrUndefinedNonEmptyWhere ==
    /\ (last.op = "get" /\ last.args.where # <<>>) =>
          IF Satisfying(last.before, last.args.where) # {}
          THEN /\ last.err = ""
               /\ Len(last.rows) = 1
               /\ last.rows[1] \in Satisfying(last.before, last.args.where)
          ELSE /\ last.err = ""
               /\ last.rows = <<>>
    /\ (/\ last.op \in {"find", "del"}
        /\ last.args.where # <<>>
        /\ Satisfying(last.before, last.args.where) = {}) =>
          /\ last.err = ""
          /\ last.rows = <<>>
          /\ last.count = 0
    /\ (/\ last.op = "list"
        /\ Selected(last.before, last.args.where) = {}) =>
          /\ last.err = ""
          /\ last.rows = <<>>

C18_GetEmptyWhereRejected ==
    /\ last.op = "get"
    /\ last.args.where = <<>>
    /\ last.before = {}
    /\ last.err = "SyntaxError"

\* The errors the store rejects a statement with.
DriverErrors ==
    {"SyntaxError", "UndefinedColumn", "DuplicateColumn", "DuplicateAssignment",
     "BindError", "NotNullViolation", "UniqueViolation", "NoUniqueConstraint",
     "InvalidLimit", "InvalidOffset"}

\* C19: no operation retries: create, update, upsert, get, list, find and del
\* send exactly one query per call and paginate exactly two, one when its count
\* query fails; when a query fails the operation rejects with the error the
\* store gave for that query, sends no further query, and the table is as it was
\* (no partial write).
C19_OneQueryNoRetry ==
    /\ last.op \in {"create", "update", "upsert", "get", "list", "find", "del"} =>
          Len(last.sent) = 1
    /\ last.op = "paginate" =>
          /\ Len(last.sent) \in {1, 2}
          /\ last.sent[1].text.kind = "COUNT"
          /\ Len(last.sent) = 2 => last.sent[2].text.kind = "SELECT"
          /\ Len(last.sent) = 1 <=>
                \A r \in PoolQuery(last.sent[1], last.before, Ids, last.t) : r.err # ""
    /\ pending.active =>
          /\ Len(pending.sent) = 1
          /\ store = pending.before
    /\ (last.op # "none" /\ last.err \notin {"", "NotFound"}) =>
          /\ last.err \in DriverErrors
          /\ \A r \in PoolQuery(last.sent[Len(last.sent)], last.before, Ids, last.t) :
                r.err = last.err
          /\ store = last.before
          /\ last.rows = <<>>
          /\ last.count = 0
    /\ last.err = "NotFound" =>
          /\ last.op = "update"
          /\ store = last.before

C19_CountQueryFailed ==
    /\ last.op = "paginate"
    /\ Len(last.sent) = 1
    /\ last.err = "UndefinedColumn"

C19_DataQueryFailed ==
    /\ last.op = "paginate"
    /\ Len(last.sent) = 2
    /\ last.err = "UndefinedColumn"
    /\ last.before # {}

\* ------------------------------------------------------- concurrent callers
\* Several callers use one accessor.  A call runs to its next await in one step;
\* paginate awaits twice, and between its two queries it keeps its local
\* variables (page, pageSize, offset, paramIndex, queryParams, whereClause,
\* orderByClause) while other calls run.  In this specification pending holds
\* the local variables of the suspended paginate calls, one frame per call, and
\* last holds, per caller, the arguments of its call and the queries it sent.

Callers == {1, 2}

\* A variant of Frame: paramIndex, queryParams and the clauses are variables of
\* the accessor, one set for all calls.
FrameOfAccessor(caller) == 0

\* The local variables of paginate belong to the call: `let paramIndex`, `const
\* queryParams`, ... are declared inside paginate.
Frame(caller) == caller

Frames == {Frame(c) : c \in Callers}

NoFrame ==
    [page |-> 0, pageSize |-> 0, offset |-> 0, paramIndex |-> 0, queryParams |-> <<>>,
     whereClause |-> <<>>, orderByClause |-> <<>>, totalCount |-> 0, totalPages |-> 0]

\* A caller's call: its arguments, the time it read, the queries it sent so far,
\* how far it is ("idle", "suspended" at the second await of paginate,
\* "settled"), and the callers it met: those suspended in paginate when it sent
\* a query.
CallerCall(op, args, t, sent, at, err, met) ==
    [op |-> op, args |-> args, t |-> t, sent |-> sent, at |-> at, err |-> err,
     met |-> met]

NoCallerCall == CallerCall("none", <<>>, 0, <<>>, "idle", "", {})

Suspended(c) == {d \in Callers \ {c} : last[d].at = "suspended"}

CallerOptions ==
    [page : {1, 2}, pageSize : {1, 2},
     where : {<<>>, << << <<kName, "a">> >> >>, << << <<kId, 1>>, <<kName, "a">> >> >>},
     orderBy : {<<>>}]

CallerStmts == {<< <<kId, 4>>, <<kName, "a">> >>}

CallerWheres == {<< <<kId, 1>> >>}

InitCallers ==
    /\ store = {PageRow(1), PageRow(2), PageRow(3)}
    /\ now = 4
    /\ last = [c \in Callers |-> NoCallerCall]
    /\ pending = [f \in Frames |-> NoFrame]
    /\ returnFields = DefaultReturnFields
    /\ accessor = GenericAccessor
    /\ users = SeedUsers
    /\ res = NoResponse
    /\ walk = NoWalk

\* paginate of caller c, lines 196-233: the locals, the count query, its result
CallPaginate(c, options) ==
    LET offset == pageOffset(options.page, options.pageSize)
        whereClause == paginateConditions(options.where)
        queryParams == paginateWhereParams(options.where)
        paramIndex == 1 + Len(whereClause)
        query == [text |-> [kind |-> "COUNT", table |-> table,
                            whereKw |-> whereClause # <<>>, where |-> whereClause],
                  params |-> queryParams]
    IN /\ last[c].at = "idle"
       /\ \E result \in PoolQuery(query, store, PageIds, now) :
           /\ store' = result.table
           /\ IF result.err # ""
              THEN /\ last' = [last EXCEPT ![c] =
                        CallerCall("paginate", options, now, <<query>>, "settled",
                                   result.err, Suspended(c))]
                   /\ UNCHANGED pending
              ELSE /\ last' = [last EXCEPT ![c] =
                        CallerCall("paginate", options, now, <<query>>, "suspended", "",
                                   Suspended(c))]
                   /\ pending' = [pending EXCEPT ![Frame(c)] =
                        [page |-> options.page, pageSize |-> options.pageSize,
                         offset |-> offset, paramIndex |-> paramIndex,
                         queryParams |-> queryParams, whereClause |-> whereClause,
                         orderByClause |-> orderByClause(options.orderBy),
                         totalCount |-> parseInt(result.rows[1].count),
                         totalPages |-> totalPagesOf(parseInt(result.rows[1].count),
                                                     options.pageSize)]]
       /\ UNCHANGED <<now, returnFields, accessor, users, res, walk>>

\* paginate of caller c, lines 235-258: the pushes, the data query; the locals
\* are gone when the call returns
ResumePaginate(c) ==
    LET frame == pending[Frame(c)]
        queryParams == frame.queryParams \o <<frame.pageSize>> \o <<frame.offset>>
        query == [text |-> [kind |-> "SELECT", columns |-> returnFields,
                            table |-> table,
                            whereKw |-> frame.whereClause # <<>>,
                            where |-> frame.whereClause,
                            orderBy |-> frame.orderByClause,
                            limit |-> <<"param", frame.paramIndex>>,
                            offset |-> <<"param", frame.paramIndex + 1>>],
                  params |-> queryParams]
    IN /\ last[c].at = "suspended"
       /\ \E result \in PoolQuery(query, store, PageIds, now) :
           /\ store' = result.table
           /\ last' = [last EXCEPT ![c] =
                 CallerCall("paginate", last[c].args, last[c].t,
                            last[c].sent \o <<query>>, "settled", result.err,
                            last[c].met \cup Suspended(c))]
       /\ pending' = [pending EXCEPT ![Frame(c)] = NoFrame]
       /\ UNCHANGED <<now, returnFields, accessor, users, res, walk>>

\* A single-statement call of caller c: built and sent in one step.
CallQuery(c, op, args, query) ==
    /\ last[c].at = "idle"
    /\ \E result \in PoolQuery(query, store, PageIds, now) :
        /\ store' = result.table
        /\ last' = [last EXCEPT ![c] =
              CallerCall(op, args, now, <<query>>, "settled", result.err, Suspended(c))]
    /\ UNCHANGED <<now, pending, returnFields, accessor, users, res, walk>>

CallCreate == \E c \in Callers, stmt \in CallerStmts :
    CallQuery(c, "create", stmt, createQuery(stmt, now))

CallDel == \E c \in Callers, where \in CallerWheres :
    CallQuery(c, "del", where, delQuery(where))

CallerPaginate == \E c \in Callers, options \in CallerOptions : CallPaginate(c, options)

CallerResume == \E c \in Callers : ResumePaginate(c)

\* Caller c takes the outcome of its settled call.
CallerContinue == \E c \in Callers :
    /\ last[c].at = "settled"
    /\ last' = [last EXCEPT ![c] = NoCallerCall]
    /\ UNCHANGED <<store, now, pending, returnFields, accessor, users, res, walk>>

NextCallers == CallerPaginate \/ CallerResume \/ CallCreate \/ CallDel \/ CallerContinue

SpecCallers == InitCallers /\ [][NextCallers]_vars

\* The equalities a Statement makes, numbered from base + 1, and their values.
ClauseOf(obj, base) ==
    [i \in 1..Len(ColumnsOf(obj)) |-> <<ColumnsOf(obj)[i], base + i>>]

ValuesIn(obj) == [i \in 1..Len(ColumnsOf(obj)) |-> LastValue(obj, ColumnsOf(obj)[i])]

\* C20: the accessor holds no mutable state shared between calls: in every
\* interleaving of concurrent calls on one accessor, several paginate calls
\* suspended between their two queries included, the SQL text and the parameter
\* array of every query a call sends are determined by that call's own arguments,
\* the construction parameters (table "users", returnFields ["*"]) and the time
\* the call read, never by another call.
C20_SentFromOwnArguments ==
    \A c \in Callers :
        LET call == last[c]
        IN /\ call.op = "paginate" =>
                 LET where == IF call.args.where = <<>> THEN <<>> ELSE call.args.where[1]
                     n == Len(ColumnsOf(where))
                 IN /\ call.sent[1] =
                          [text |-> [kind |-> "COUNT", table |-> "users",
                                     whereKw |-> n > 0, where |-> ClauseOf(where, 0)],
                           params |-> ValuesIn(where)]
                    /\ call.at = "suspended" => Len(call.sent) = 1
                    /\ (call.at = "settled" /\ Len(call.sent) = 1) => call.err # ""
                    /\ Len(call.sent) = 2 =>
                          call.sent[2] =
                             [text |-> [kind |-> "SELECT", columns |-> << <<"*">> >>,
                                        table |-> "users", whereKw |-> n > 0,
                                        where |-> ClauseOf(where, 0),
                                        orderBy |-> <<SnakeOf(kCreatedAt), "DESC">>,
                                        limit |-> <<"param", n + 1>>,
                                        offset |-> <<"param", n + 2>>],
                              params |-> ValuesIn(where)
                                         \o <<call.args.pageSize,
                                              (call.args.page - 1) * call.args.pageSize>>]
           /\ call.op = "create" =>
                 LET stamped == WithKey(WithKey(call.args, kCreatedAt, call.t),
                                        kUpdatedAt, call.t)
                 IN call.sent =
                       <<[text |-> [kind |-> "INSERT", table |-> "users",
                                    fields |-> ColumnsOf(stamped),
                                    placeholders |-> [i \in 1..Len(ColumnsOf(stamped)) |-> i],
                                    returning |-> << <<"*">> >>],
                          params |-> ValuesIn(stamped)]>>
           /\ call.op = "del" =>
                 call.sent =
                    <<[text |-> [kind |-> "DELETE", table |-> "users", whereKw |-> TRUE,
                                 where |-> ClauseOf(call.args, 0)],
                       params |-> ValuesIn(call.args)]>>

C20_TwoPaginatesInterleaved ==
    /\ \A c \in Callers :
          /\ last[c].op = "paginate"
          /\ last[c].at = "settled"
          /\ Len(last[c].sent) = 2
          /\ last[c].met = Callers \ {c}
    /\ last[1].args.where # last[2].args.where
    /\ last[1].args.pageSize # last[2].args.pageSize

\* ------------------------------------------------- accessors by returnFields
\* Accessors made with different returnFields, each on a table of one row.  The
\* list is written into the text as given: a name in camelCase stays as it is
\* and then names no column of the table.

FieldLists ==
    {DefaultReturnFields, <<colId>>, <<colName, colId>>, <<kCreatedAt>>}

FieldsStmts ==
    {<< <<kName, "a">> >>, << <<kId, 2>>, <<kName, "b">> >>,
     << <<kName, "b">>, <<kCreatedAt, 0>> >>}

FieldsWheres == {<< <<kId, 1>> >>, << <<kName, "a">> >>}

FieldsOptions ==
    [page : {1}, pageSize : {1, 2}, where : {<<>>, << << <<kName, "a">> >> >>},
     orderBy : {<<>>, <<[field |-> kId, direction |-> "DESC"]>>}]

InitFields ==
    /\ store = {PageRow(1)}
    /\ now = 1
    /\ last = NoCall
    /\ pending = NoPending
    /\ returnFields \in FieldLists
    /\ accessor = GenericAccessor
    /\ users = SeedUsers
    /\ res = NoResponse
    /\ walk = NoWalk

FieldsCreate == Idle /\ \E stmt \in FieldsStmts : create(stmt)

FieldsUpdate ==
    Idle /\ \E stmt \in FieldsStmts, where \in FieldsWheres : update(stmt, where)

FieldsUpsert == Idle /\ \E stmt \in FieldsStmts : upsert(stmt)

FieldsGet == Idle /\ \E where \in FieldsWheres : get(where)

FieldsList == Idle /\ \E optWhere \in {<<>>} \cup {<<w>> : w \in FieldsWheres} : list(optWhere)

FieldsFind == Idle /\ \E where \in FieldsWheres : find(where)

FieldsPaginateCount == Idle /\ \E options \in FieldsOptions : paginateCount(options)

NextFields ==
    \/ FieldsCreate \/ FieldsUpdate \/ FieldsUpsert \/ FieldsGet \/ FieldsList
    \/ FieldsFind \/ FieldsPaginateCount \/ PaginateData \/ Continue

SpecFields == InitFields /\ [][NextFields]_vars

\* The queries of the call that settled last and of the suspended paginate.
SentQueries ==
    {last.sent[i] : i \in 1..Len(last.sent)}
    \cup {pending.sent[i] : i \in 1..Len(pending.sent)}

\* The fields of a returned row under a column list.
FieldsUnder(cols) ==
    IF \E i \in 1..Len(cols) : cols[i] = <<"*">>
    THEN {"id", "name", "created_at", "updated_at"}
    ELSE {FieldOf(cols[i]) : i \in 1..Len(cols)}

\* C21: the column list of every SELECT (get, list, find, the data query of
\* paginate) and the RETURNING list of every INSERT and UPDATE (create, update,
\* upsert) is the returnFields list given at construction, name for name and in
\* its order, whatever the arguments of the call; and the rows a call resolves
\* to carry exactly the fields that list names.
C21_ColumnsAreReturnFields ==
    /\ \A q \in SentQueries :
          /\ q.text.kind = "SELECT" => q.text.columns = returnFields
          /\ q.text.kind \in {"INSERT", "UPSERT", "UPDATE"} =>
                q.text.returning = returnFields
    /\ last.op \in {"get", "list", "find", "paginate"} =>
          \E q \in SentQueries : q.text.kind = "SELECT" \/ last.err # ""
    /\ last.op \in {"create", "update", "upsert"} =>
          \E q \in SentQueries : q.text.kind \in {"INSERT", "UPSERT", "UPDATE"}
    /\ (last.op \in {"create", "update", "upsert", "get", "list", "find", "paginate"}
        /\ last.err = "") =>
          \A i \in 1..Len(last.rows) : DOMAIN last.rows[i] = FieldsUnder(returnFields)

C21_CreateReturnsNameAndId ==
    /\ returnFields = <<colName, colId>>
    /\ last.op = "create"
    /\ last.err = ""
    /\ Len(last.args.stmt) = 2
    /\ last.sent[1].text.returning = <<colName, colId>>
    /\ DOMAIN last.rows[1] = {"id", "name"}

\* The keys of a Statement, converted.
SnakeKeys(obj) == {SnakeOf(obj[i][1]) : i \in 1..Len(obj)}

\* The column names a query writes and the ones it filters by, as written.
WrittenNames(query) ==
    CASE query.text.kind \in {"INSERT", "UPSERT"} ->
            {query.text.fields[i] : i \in 1..Len(query.text.fields)}
      [] query.text.kind = "UPDATE" ->
            {query.text.set[i][1] : i \in 1..Len(query.text.set)}
      [] OTHER -> {}

FilterNames(query) ==
    IF query.text.kind \in {"UPDATE", "SELECT", "COUNT", "DELETE"}
    THEN {query.text.where[i][1] : i \in 1..Len(query.text.where)}
    ELSE {}

OrderNames(query) ==
    IF query.text.kind = "SELECT" /\ query.text.orderBy # <<>>
    THEN {query.text.orderBy[1]} ELSE {}

\* C22: in every operation the column names of the SQL text are the keys of the
\* Statements converted from camelCase to snake_case, every upper-case letter
\* replaced by '_' and its lower-case form (lastLoginAt is written
\* last_login_at): the written columns are the converted keys of stmt with the
\* stamps, the filter columns the converted keys of where, the ordering column
\* the converted orderBy.field; a key already in snake_case is written as it
\* is, and converting any name of the text once more changes nothing.
C22_KeysWrittenInSnakeCase ==
    /\ \A q \in SentQueries :
          \A name \in WrittenNames(q) \cup FilterNames(q) \cup OrderNames(q) :
              camelToSnake(name) = name
    /\ last.op \in {"create", "upsert"} =>
          /\ WrittenNames(last.sent[1]) =
                SnakeKeys(last.args.stmt) \cup {SnakeOf(kCreatedAt), SnakeOf(kUpdatedAt)}
          /\ last.op = "upsert" =>
                \A i \in 1..Len(last.sent[1].text.doUpdateSet) :
                    /\ last.sent[1].text.doUpdateSet[i][1]
                          \in WrittenNames(last.sent[1])
                    /\ last.sent[1].text.doUpdateSet[i][2]
                          = last.sent[1].text.doUpdateSet[i][1]
    /\ last.op = "update" =>
          /\ WrittenNames(last.sent[1]) =
                SnakeKeys(last.args.stmt) \cup {SnakeOf(kUpdatedAt)}
          /\ FilterNames(last.sent[1]) = SnakeKeys(last.args.where)
    /\ last.op \in {"get", "find", "del"} =>
          FilterNames(last.sent[1]) = SnakeKeys(last.args.where)
    /\ last.op \in {"list", "paginate"} =>
          \A i \in 1..Len(last.sent) :
              FilterNames(last.sent[i]) =
                 IF last.args.where = <<>> THEN {} ELSE SnakeKeys(last.args.where[1])
    /\ pending.active =>
          FilterNames(pending.sent[1]) =
             IF pending.options.where = <<>> THEN {}
             ELSE SnakeKeys(pending.options.where[1])
    /\ (last.op = "paginate" /\ Len(last.sent) = 2) =>
          OrderNames(last.sent[2]) =
             IF last.args.options.orderBy = <<>> THEN {SnakeOf(kCreatedAt)}
             ELSE {SnakeOf(last.args.options.orderBy[1].field)}

C22_TwoCapitalsAndSnakeKey ==
    /\ last.op = "update"
    /\ \E i \in 1..Len(last.args.stmt) : last.args.stmt[i][1] = kLastLoginAt
    /\ <<"l","a","s","t","_","l","o","g","i","n","_","a","t">>
          \in WrittenNames(last.sent[1])
    /\ \E i \in 1..Len(last.args.where) : last.args.where[i][1] = created_at
    /\ \E i \in 1..Len(last.args.where) : last.args.where[i][1] = kCreatedAt
    /\ FilterNames(last.sent[1]) = {<<"c","r","e","a","t","e","d","_","a","t">>}

\* --------------------------------------------------------- extension factory
\* Factory called with and without an extension factory, and the operations of
\* the object it returns called by name.  An extension factory is given by the
\* names of the operations it returns; what those operations do is theirs, the
\* accessor sends no query for them.

Pools == {"pool", "replica"}

ExtensionNames == {"findByEmail", "get", "del"}

\* extensionsFactory: <<>> when the argument is omitted, <<names>> for a factory
\* that returns an object with these names.
ExtensionsFactories ==
    {<<>>, << <<>> >>} \cup {<< <<n>> >> : n \in ExtensionNames}
    \cup {<< <<p[1], p[2]>> >> :
            p \in {q \in ExtensionNames \X ExtensionNames : q[1] # q[2]}}

\* { ...target, ...source }
RECURSIVE Spread(_, _)
Spread(target, source) ==
    IF source = <<>> THEN target
    ELSE Spread(ObjectSet(target, source[1][1], source[1][2]), Tail(source))

NotMade ==
    [made |-> FALSE, pool |-> "pool", table |-> table, extensionsFactory |-> <<>>,
     calls |-> <<>>, extend |-> <<>>, operations |-> <<>>]

InitExtend ==
    /\ store = {PageRow(1), PageRow(2)}
    /\ now = 1
    /\ last = NoCall
    /\ pending = NoPending
    /\ returnFields = DefaultReturnFields
    /\ accessor = NotMade
    /\ users = SeedUsers
    /\ res = NoResponse
    /\ walk = NoWalk

\* const extend = extensionsFactory ? extensionsFactory(pool, table, returnFields) : {}
\* return { create, update, upsert, get, list, find, del, paginate, ...extend }
Factory(pool, fields, extensionsFactory) ==
    LET extend == IF extensionsFactory = <<>> THEN <<>>
                  ELSE [i \in 1..Len(extensionsFactory[1]) |->
                           <<extensionsFactory[1][i], "extension">>]
    IN /\ ~accessor.made
       /\ returnFields' = fields
       /\ accessor' =
             [made |-> TRUE, pool |-> pool, table |-> table,
              extensionsFactory |-> extensionsFactory,
              calls |-> IF extensionsFactory = <<>> THEN <<>>
                        ELSE <<[pool |-> pool, table |-> table,
                                returnFields |-> fields]>>,
              extend |-> extend,
              operations |-> Spread(GenericOperations, extend)]
       /\ UNCHANGED <<store, now, last, pending, users, res, walk>>

\* accessor[name](...): the function under the name runs, generic when it is
\* one of Factory.
Invoke(name, generic) ==
    /\ accessor.made
    /\ Idle
    /\ HasKey(accessor.operations, name)
    /\ IF ValueOf(accessor.operations, name) = "generic"
       THEN generic
       ELSE /\ last' = Call(name, NoArgs, now, <<>>, "", <<>>, 0, store)
            /\ UNCHANGED <<store, now, pending, returnFields, accessor, users, res, walk>>

MakeAccessor ==
    \E pool \in Pools, fields \in {DefaultReturnFields, <<colId>>},
       extensionsFactory \in ExtensionsFactories :
        Factory(pool, fields, extensionsFactory)

InvokeGet == Invoke("get", get(<< <<kId, 1>> >>))

InvokeList == Invoke("list", list(<<>>))

InvokeDel == Invoke("del", del(<< <<kId, 2>> >>))

InvokeFindByEmail == Invoke("findByEmail", FALSE)

NextExtend ==
    MakeAccessor \/ InvokeGet \/ InvokeList \/ InvokeDel \/ InvokeFindByEmail \/ Continue

SpecExtend == InitExtend /\ [][NextExtend]_vars

\* The operations of an object, as name and function.
Entries(obj) == {obj[i] : i \in 1..Len(obj)}

\* C23: when an extension factory is given, Factory calls it once, with its own
\* pool, table and returnFields, and the object Factory returns holds the eight
\* generic operations together with every operation the extension factory
\* returned, whatever the names of those are.
C23_GenericAndExtensionOperations ==
    accessor.made =>
        /\ accessor.extensionsFactory # <<>> =>
              accessor.calls = <<[pool |-> accessor.pool, table |-> accessor.table,
                                  returnFields |-> returnFields]>>
        /\ accessor.extensionsFactory = <<>> => accessor.calls = <<>>
        /\ \A i \in 1..Len(GenericNames) :
              <<GenericNames[i], "generic">> \in Entries(accessor.operations)
        /\ \A e \in Entries(accessor.extend) : e \in Entries(accessor.operations)

\* The same for extension factories that return no name of a generic operation.
C23_OtherNamesMerged ==
    (accessor.made
     /\ \A e \in Entries(accessor.extend) :
           \A i \in 1..Len(GenericNames) : e[1] # GenericNames[i]) =>
        C23_GenericAndExtensionOperations

\* An extension factory returned an operation named get: the call of get on
\* the accessor ran that operation and no SELECT was sent.
C23_ExtensionGetReplacesGet ==
    /\ accessor.made
    /\ <<"get", "extension">> \in Entries(accessor.extend)
    /\ <<"get", "generic">> \notin Entries(accessor.operations)
    /\ Len(accessor.calls) = 1
    /\ last.op = "get"
    /\ last.sent = <<>>

\* ------------------------------------------------- the users API (unit test)
\* The routes of the server of describe('Users API') over the users array.  A
\* user and a JSON body are objects, sequences of <<key, value>>.

\* Ids the server gives out run up to MaxUserId.
MaxUserId == 3

Emails == {"john@example.com", "bob@example.com"}

\* Bodies of POST: name and email missing, empty or given; active given or not.
PostBodies ==
    {n \o e : n \in {<<>>, << <<"name", "Bob Wilson">> >>},
              e \in {<<>>} \cup {<< <<"email", v>> >> : v \in Emails \cup {""}}}
    \cup {<< <<"name", "">>, <<"email", "bob@example.com">> >>,
          << <<"name", "Bob Wilson">>, <<"email", "bob@example.com">>,
             <<"active", FALSE>> >>}

\* Bodies of PUT: nothing, the fields of the test, an email, an id.
PutBodies ==
    {<<>>, << <<"name", "John Updated">>, <<"active", FALSE>> >>,
     << <<"id", 2>>, <<"email", "john@example.com">> >>,
     << <<"email", "bob@example.com">> >>}

\* !body[key], for the string fields
Falsy(obj, key) == ~HasKey(obj, key) \/ ValueOf(obj, key) = ""

\* app.use: if (req.headers.get('x-test-reset') === 'true') resetUsers()
resetMiddleware(reset) == IF reset THEN SeedUsers ELSE users

UserIds(array) == {ValueOf(array[i], "id") : i \in 1..Len(array)}

\* Math.max(...numbers)
MathMax(numbers) == CHOOSE m \in numbers : \A n \in numbers : n <= m

\* users.findIndex(u => u.id === id), counted from 1; 0 for -1
findIndex(array, id) ==
    IF \E i \in 1..Len(array) : ValueOf(array[i], "id") = id
    THEN CHOOSE i \in 1..Len(array) :
             /\ ValueOf(array[i], "id") = id
             /\ \A k \in 1..(i - 1) : ValueOf(array[k], "id") # id
    ELSE 0

\* app.get('/api/users'), without the active and search filters
getUsers(reset) ==
    /\ users' = resetMiddleware(reset)
    /\ res' = Response("GET /api/users", <<>>, 200, "", resetMiddleware(reset), <<>>, <<>>)

\* A variant of postUsers: a duplicate email is not looked for.
postUsersUnchecked(reset, body) ==
    LET array == resetMiddleware(reset)
        newUser == << <<"id", MathMax(UserIds(array) \cup {0}) + 1>>,
                      <<"name", ValueOf(body, "name")>>,
                      <<"email", ValueOf(body, "email")>>,
                      <<"active", IF HasKey(body, "active")
                                  THEN ValueOf(body, "active") ELSE TRUE>> >>
    IN IF Falsy(body, "name") \/ Falsy(body, "email")
       THEN /\ users' = array
            /\ res' = Response("POST /api/users", body, 400,
                               "Name and email are required", array, <<>>, <<>>)
       ELSE /\ users' = Append(array, newUser)
            /\ res' = Response("POST /api/users", body, 201, "", array, <<>>, <<>>)

\* app.post('/api/users')
postUsers(reset, body) ==
    LET array == resetMiddleware(reset)
        newUser == << <<"id", MathMax(UserIds(array) \cup {0}) + 1>>,
                      <<"name", ValueOf(body, "name")>>,
                      <<"email", ValueOf(body, "email")>>,
                      <<"active", IF HasKey(body, "active")
                                  THEN ValueOf(body, "active") ELSE TRUE>> >>
    IN IF Falsy(body, "name") \/ Falsy(body, "email")
       THEN /\ users' = array
            /\ res' = Response("POST /api/users", body, 400,
                               "Name and email are required", array, <<>>, <<>>)
       ELSE IF \E i \in 1..Len(array) : ValueOf(array[i], "email") = ValueOf(body, "email")
       THEN /\ users' = array
            /\ res' = Response("POST /api/users", body, 409,
                               "Email already exists", array, <<>>, <<>>)
       ELSE /\ users' = Append(array, newUser)
            /\ res' = Response("POST /api/users", body, 201, "", array, <<>>, <<>>)

\* app.put('/api/users/:id'): users[userIndex] = { ...users[userIndex], ...body, id }
putUser(reset, id, body) ==
    LET array == resetMiddleware(reset)
        userIndex == findIndex(array, id)
    IN IF userIndex = 0
       THEN /\ users' = array
            /\ res' = Response("PUT /api/users/:id", <<id, body>>, 404,
                               "User not found", array, <<>>, <<>>)
       ELSE /\ users' = [array EXCEPT
                            ![userIndex] = Spread(Spread(array[userIndex], body),
                                                  << <<"id", id>> >>)]
            /\ res' = Response("PUT /api/users/:id", <<id, body>>, 200, "", array,
                               <<>>, <<>>)

\* app.delete('/api/users/:id'): users.splice(userIndex, 1)
deleteUser(reset, id) ==
    LET array == resetMiddleware(reset)
        userIndex == findIndex(array, id)
    IN IF userIndex = 0
       THEN /\ users' = array
            /\ res' = Response("DELETE /api/users/:id", <<id, <<>> >>, 404,
                               "User not found", array, <<>>, <<>>)
       ELSE /\ users' = SubSeq(array, 1, userIndex - 1)
                        \o SubSeq(array, userIndex + 1, Len(array))
            /\ res' = Response("DELETE /api/users/:id", <<id, <<>> >>, 204, "", array,
                               <<>>, <<>>)

ApiUnchanged == UNCHANGED <<store, now, last, pending, returnFields, accessor, walk>>

\* The x-test-reset header comes with a GET /api/users, as in beforeEach, and
\* with no other request.
GetUsers == (\E reset \in BOOLEAN : getUsers(reset)) /\ ApiUnchanged

\* The ids given out stay within MaxUserId.
PostUsers ==
    /\ \E body \in PostBodies :
          /\ postUsers(FALSE, body)
          /\ MathMax(UserIds(users') \cup {0}) <= MaxUserId
    /\ ApiUnchanged

PutUser ==
    /\ \E id \in 1..MaxUserId, body \in PutBodies : putUser(FALSE, id, body)
    /\ ApiUnchanged

DeleteUser == (\E id \in 1..MaxUserId : deleteUser(FALSE, id)) /\ ApiUnchanged

NextUsers == GetUsers \/ PostUsers \/ PutUser \/ DeleteUser

SpecUsers == Init /\ [][NextUsers]_vars

\* The body gives no value for the key: the key is missing or empty.
Lacks(body, key) == \A i \in 1..Len(body) : body[i][1] = key => body[i][2] = ""

\* The value of a key an object has.
Field(obj, key) == obj[CHOOSE i \in 1..Len(obj) : obj[i][1] = key][2]

EmailsOf(array) == {Field(array[i], "email") : i \in 1..Len(array)}

\* C24: POST /api/users with a body that lacks name or email (missing or empty)
\* answers 400; with both given and an email some user has, 409; in both cases
\* the users array is as the handler found it.  No request but a POST answered
\* 201 makes the array longer, and that one appends exactly one user, with the
\* name and email of the body, to the users there were.
C24_PostValidatesThenAddsOne ==
    /\ res.route = "POST /api/users" =>
          /\ res.status \in {400, 409, 201}
          /\ (Lacks(res.req, "name") \/ Lacks(res.req, "email")) => res.status = 400
          /\ (~Lacks(res.req, "name") /\ ~Lacks(res.req, "email")
              /\ Field(res.req, "email") \in EmailsOf(res.before)) => res.status = 409
          /\ res.status \in {400, 409} => users = res.before
          /\ res.status = 201 =>
                /\ Len(users) = Len(res.before) + 1
                /\ SubSeq(users, 1, Len(res.before)) = res.before
                /\ Field(users[Len(users)], "name") = Field(res.req, "name")
                /\ Field(users[Len(users)], "email") = Field(res.req, "email")
    /\ (res.route # "none" /\ ~(res.route = "POST /api/users" /\ res.status = 201)) =>
          Len(users) <= Len(res.before)

C24_DuplicateOfAddedUserRejected ==
    /\ res.route = "POST /api/users"
    /\ res.status = 409
    /\ Field(res.req, "email") = "bob@example.com"
    /\ Len(users) = 3
    /\ users = res.before

\* C30: from the two seed users on, whatever POST, PUT and DELETE requests were
\* answered, no two users of the array have the same email and no two the same
\* id.
C30_EmailsAndIdsUnique ==
    \A i, j \in 1..Len(users) :
        i # j => /\ Field(users[i], "email") # Field(users[j], "email")
                 /\ Field(users[i], "id") # Field(users[j], "id")

\* The ids alone.
C30_IdsUnique ==
    \A i, j \in 1..Len(users) : i # j => Field(users[i], "id") # Field(users[j], "id")

\* A PUT gave a user the email another user has.
C30_PutMadeEmailsEqual ==
    /\ res.route = "PUT /api/users/:id"
    /\ res.status = 200
    /\ \A i, j \in 1..Len(res.before) :
          i # j => Field(res.before[i], "email") # Field(res.before[j], "email")
    /\ \E i, j \in 1..Len(users) :
          i # j /\ Field(users[i], "email") = Field(users[j], "email")

\* ------------------------------------------- the auth middleware (unit test)
\* The server of describe('Auth Middleware').  A token is kept as what verify
\* looks at: whether it starts with 'mock.token.', and whether the rest decodes
\* (atob, JSON.parse) to an object, to null, or to nothing at all.

\* The mock user database of the login route
LoginUsers ==
    {[id |-> 1, username |-> "user", password |-> "password", role |-> "user"],
     [id |-> 2, username |-> "admin", password |-> "admin123", role |-> "admin"]}

\* mockJWT.sign(payload, secret): `mock.token.${btoa(JSON.stringify(payload))}`
sign(payload) == [mock |-> TRUE, json |-> "object", payload |-> payload]

\* { id: user.id, username: user.username, role: user.role }
PayloadOf(user) ==
    << <<"id", user.id>>, <<"username", user.username>>, <<"role", user.role>> >>

\* Tokens a client may send: the ones login signs, one signed for an object
\* without a role and one for an object of the client's own making, 'mock.token.'
\* followed by the encoding of null or by something that does not decode, and a
\* token without the prefix.
Tokens ==
    {sign(PayloadOf(u)) : u \in LoginUsers}
    \cup {sign(<<>>), sign(<< <<"role", "admin">> >>), sign(<< <<"role", "">> >>),
          [mock |-> TRUE, json |-> "null", payload |-> <<>>],
          [mock |-> TRUE, json |-> "invalid", payload |-> <<>>],
          [mock |-> FALSE, json |-> "object", payload |-> << <<"role", "admin">> >>]}

\* The Authorization header: <<>> when there is none.
Authorizations ==
    {<<>>}
    \cup {<<[scheme |-> s, token |-> t]>> : s \in {"Bearer", "bearer", "Basic"}, t \in Tokens}

\* mockJWT.verify(token, secret); decoded is <<>> for null and <<object>> for an
\* object.
verify(token) ==
    [threw |-> ~token.mock \/ token.json = "invalid",
     decoded |-> IF token.json = "object" THEN <<token.payload>> ELSE <<>>]

\* What a middleware did: called next() or answered, and req.user after it.
Passed(user) == [next |-> TRUE, status |-> 0, error |-> "", user |-> user]

Answered(status, error, user) ==
    [next |-> FALSE, status |-> status, error |-> error, user |-> user]

authMiddleware(authHeader, user) ==
    IF authHeader = <<>> \/ authHeader[1].scheme # "Bearer"
    THEN Answered(401, "No token provided", user)
    ELSE IF verify(authHeader[1].token).threw
    THEN Answered(401, "Invalid token", user)
    ELSE Passed(verify(authHeader[1].token).decoded)

optionalAuthMiddleware(authHeader, user) ==
    IF authHeader # <<>> /\ authHeader[1].scheme = "Bearer"
       /\ ~verify(authHeader[1].token).threw
    THEN Passed(verify(authHeader[1].token).decoded)
    ELSE Passed(user)

\* A variant of requireRole: every authenticated user passes.
requireRoleAuthenticated(role, user) ==
    IF user = <<>> THEN Answered(401, "Authentication required", user)
    ELSE Passed(user)

\* requireRole(role)
requireRole(role, user) ==
    IF user = <<>> THEN Answered(401, "Authentication required", user)
    ELSE IF ~HasKey(user[1], "role") \/ ValueOf(user[1], "role") # role
    THEN Answered(403, "Insufficient permissions", user)
    ELSE Passed(user)

\* A route with its chain of middlewares, run in order until one answers; the
\* handler answers 200.  chain names the middlewares, outcome gives what each
\* does with the req.user it finds.
RECURSIVE RunChain(_, _, _, _, _)
RunChain(route, authHeader, chain, ran, user) ==
    IF chain = <<>>
    THEN Response(route, authHeader, 200, "", <<>>, Append(ran, "handler"), user)
    ELSE LET did == CASE chain[1] = "authMiddleware" -> authMiddleware(authHeader, user)
                      [] chain[1] = "optionalAuthMiddleware" ->
                            optionalAuthMiddleware(authHeader, user)
                      [] chain[1] = "requireRole" -> requireRole("admin", user)
         IN IF did.next
            THEN RunChain(route, authHeader, Tail(chain), Append(ran, chain[1]), did.user)
            ELSE Response(route, authHeader, did.status, did.error, <<>>,
                          Append(ran, chain[1]), did.user)

Request(route, chain) ==
    /\ \E authHeader \in Authorizations :
          res' = RunChain(route, authHeader, chain, <<>>, <<>>)
    /\ UNCHANGED <<store, now, last, pending, returnFields, accessor, users, walk>>

\* app.get('/api/public', handler)
GetPublic == Request("GET /api/public", <<>>)

\* app.get('/api/protected', authMiddleware, handler)
GetProtected == Request("GET /api/protected", <<"authMiddleware">>)

\* app.get('/api/optional', optionalAuthMiddleware, handler)
GetOptional == Request("GET /api/optional", <<"optionalAuthMiddleware">>)

\* app.get('/api/admin', authMiddleware, requireRole('admin'), handler)
GetAdmin == Request("GET /api/admin", <<"authMiddleware", "requireRole">>)

\* app.post('/api/login'): the token is answered in user
PostLogin ==
    /\ \E username \in {"user", "admin"}, password \in {"password", "admin123", "wrong"} :
          LET found == {u \in LoginUsers :
                           u.username = username /\ u.password = password}
          IN res' = IF found = {}
                    THEN Response("POST /api/login", <<username, password>>, 401,
                                  "Invalid credentials", <<>>, <<"handler">>, <<>>)
                    ELSE Response("POST /api/login", <<username, password>>, 200, "",
                                  <<>>, <<"handler">>,
                                  <<sign(PayloadOf(CHOOSE u \in found : TRUE))>>)
    /\ UNCHANGED <<store, now, last, pending, returnFields, accessor, users, walk>>

NextAuth == GetPublic \/ GetProtected \/ GetOptional \/ GetAdmin \/ PostLogin

SpecAuth == Init /\ [][NextAuth]_vars

\* The request carries a Bearer token; the token verifies (it has the prefix and
\* its rest decodes); it decodes to an object; that object has role 'admin'.
HasBearer(authHeader) == authHeader # <<>> /\ authHeader[1].scheme = "Bearer"

Verifies(authHeader) ==
    /\ HasBearer(authHeader)
    /\ authHeader[1].token.mock
    /\ authHeader[1].token.json \in {"object", "null"}

DecodesToObject(authHeader) ==
    Verifies(authHeader) /\ authHeader[1].token.json = "object"

DecodesToAdmin(authHeader) ==
    /\ DecodesToObject(authHeader)
    /\ \E i \in 1..Len(authHeader[1].token.payload) :
          authHeader[1].token.payload[i] = <<"role", "admin">>

\* C25: on GET /api/admin the handler runs exactly for the requests whose Bearer
\* token verifies and decodes to role 'admin'.  Without a Bearer token
\* authMiddleware answers 401 'No token provided' and requireRole does not run;
\* with a token that does not verify it answers 401 'Invalid token'; with a
\* token that verifies and decodes to an object of another role, or of none,
\* requireRole answers 403 'Insufficient permissions'.  (A token that decodes
\* to null leaves no user: requireRole answers 401 'Authentication required'.)
C25_AdminOnlyForAdminToken ==
    res.route = "GET /api/admin" =>
        /\ (\E i \in 1..Len(res.ran) : res.ran[i] = "handler") <=> DecodesToAdmin(res.req)
        /\ DecodesToAdmin(res.req) =>
              /\ res.status = 200
              /\ res.ran = <<"authMiddleware", "requireRole", "handler">>
        /\ ~HasBearer(res.req) =>
              /\ res.status = 401
              /\ res.error = "No token provided"
              /\ res.ran = <<"authMiddleware">>
        /\ (HasBearer(res.req) /\ ~Verifies(res.req)) =>
              /\ res.status = 401
              /\ res.error = "Invalid token"
              /\ res.ran = <<"authMiddleware">>
        /\ (DecodesToObject(res.req) /\ ~DecodesToAdmin(res.req)) =>
              /\ res.status = 403
              /\ res.error = "Insufficient permissions"
              /\ res.ran = <<"authMiddleware", "requireRole">>
        /\ (Verifies(res.req) /\ ~DecodesToObject(res.req)) =>
              /\ res.status = 401
              /\ res.error = "Authentication required"
              /\ res.ran = <<"authMiddleware", "requireRole">>

C25_LoginTokenOfUserForbidden ==
    /\ res.route = "GET /api/admin"
    /\ HasBearer(res.req)
    /\ res.req[1].token.mock
    /\ res.req[1].token.payload =
          << <<"id", 1>>, <<"username", "user">>, <<"role", "user">> >>
    /\ res.status = 403
    /\ res.ran = <<"authMiddleware", "requireRole">>

\* C26: the DO UPDATE SET clause of the statement upsert sends assigns every
\* column at most once, and the store does not refuse the statement for an
\* assignment made twice.
C26_UpsertAssignsColumnsOnce ==
    last.op = "upsert" =>
        /\ \A i, j \in 1..Len(last.sent[1].text.doUpdateSet) :
              last.sent[1].text.doUpdateSet[i][1] = last.sent[1].text.doUpdateSet[j][1]
                 => i = j
        /\ last.err # "DuplicateAssignment"

\* An upsert of a name for an id the table has: updated_at is assigned twice,
\* the store refuses the statement and the table is as it was.
C26_UpsertOfExistingIdRefused ==
    /\ last.op = "upsert"
    /\ \E r \in last.before : <<kId, r.id>> \in {last.args.stmt[i] : i \in 1..Len(last.args.stmt)}
    /\ Cardinality({i \in 1..Len(last.sent[1].text.doUpdateSet) :
                       last.sent[1].text.doUpdateSet[i][1] = updated_at}) = 2
    /\ last.err = "DuplicateAssignment"
    /\ store = last.before

\* C27: every query get, find, del and update send is written with a WHERE
\* clause of at least one equality, whatever the where Statement, the empty one
\* included.
C27_WhereHasAnEquality ==
    /\ last.op \in {"get", "find", "del"} =>
          /\ last.sent[1].text.whereKw
          /\ Len(last.sent[1].text.where) >= 1
    /\ last.op = "update" => Len(last.sent[1].text.where) >= 1

\* Whatever the where of del, the empty one included, no row that fails an
\* equality of it is removed, and with the empty where no row is removed at all.
C27_DelNeverUnrestricted ==
    last.op = "del" =>
        /\ last.sent[1].text.whereKw
        /\ last.args.where = <<>> => store = last.before
        /\ \A r \in last.before \ store : Satisfies(r, last.args.where)

\* del({}) on a table with rows: the text has the keyword WHERE and nothing
\* after it, the store refuses it, no row is removed.
C27_DelEmptyWhereRefused ==
    /\ last.op = "del"
    /\ last.args.where = <<>>
    /\ last.before # {}
    /\ last.sent[1].text.whereKw
    /\ last.sent[1].text.where = <<>>
    /\ last.err = "SyntaxError"
    /\ store = last.before

\* The row an update of stmt at time t makes of a row.
Modified(row, stmt, t) ==
    [f \in DOMAIN row |->
        IF f = "updated_at" THEN t
        ELSE IF \E i \in 1..Len(stmt) : FieldOf(stmt[i][1]) = f
        THEN stmt[CHOOSE i \in 1..Len(stmt) : FieldOf(stmt[i][1]) = f][2]
        ELSE row[f]]

\* C28: an update that resolves has modified every row that satisfies all the
\* equalities of where, several when several do, and resolves to one of the
\* modified rows; a del that resolves has removed exactly those rows.  Every
\* row that fails an equality of where is in the table as it was, and a call
\* that rejects leaves the whole table as it was.
C28_ExactlyMatchingRowsWritten ==
    /\ last.op = "update" =>
          LET hit == Satisfying(last.before, last.args.where)
              new == {Modified(r, last.args.stmt, last.t) : r \in hit}
          IN /\ last.before \ hit \subseteq store
             /\ last.err # "" => store = last.before
             /\ last.err = "" =>
                   /\ hit # {}
                   /\ store = (last.before \ hit) \cup new
                   /\ Cardinality(store) = Cardinality(last.before)
                   /\ Len(last.rows) = 1
                   /\ last.rows[1] \in new
    /\ last.op = "del" =>
          LET hit == Satisfying(last.before, last.args.where)
          IN /\ last.before \ hit \subseteq store
             /\ last.err # "" => store = last.before
             /\ last.err = "" =>
                   /\ store = last.before \ hit
                   /\ last.count = Cardinality(hit)

\* update({name: "b"}, {name: "a"}) on two rows named "a": both are renamed, one
\* is returned.
C28_UpdateOfTwoRowsReturnsOne ==
    /\ last.op = "update"
    /\ last.err = ""
    /\ Cardinality(Satisfying(last.before, last.args.where)) = 2
    /\ \A r \in last.before : r.name = "a"
    /\ \A r \in store : r.name = "b" /\ r.updated_at = last.t
    /\ Cardinality(store) = 2
    /\ Len(last.rows) = 1

\* ------------------------------------------------------ reading page by page
\* One caller reads a table that nobody writes, page after page, with the same
\* pageSize, where and orderBy: pages 1..totalPages and the page after.  Rows
\* 2k-1 and 2k of the table have the same created_at.

WalkOptions ==
    [pageSize : 1..MaxPageSize, where : {<<>>, << << <<kName, "a">> >> >>},
     orderBy : {<<>>, <<[field |-> kId, direction |-> "DESC"]>>}]

InitWalk ==
    /\ \E k \in 0..MaxRows : store = {PageRow(i) : i \in 1..k}
    /\ now = MaxRows
    /\ last = NoCall
    /\ pending = NoPending
    /\ returnFields = DefaultReturnFields
    /\ accessor = GenericAccessor
    /\ users = SeedUsers
    /\ res = NoResponse
    /\ walk = NoWalk

WalkDone == Len(walk.pages) > walk.totalPages

WalkStart ==
    /\ ~walk.active
    /\ \E options \in WalkOptions :
          walk' = [active |-> TRUE, options |-> options, pages |-> <<>>, totalPages |-> 0]
    /\ UNCHANGED <<store, now, last, pending, returnFields, accessor, users, res>>

\* paginate({ page, pageSize, where, orderBy }) for the next page
WalkPaginate ==
    /\ walk.active
    /\ Idle
    /\ ~WalkDone
    /\ paginateCount([page |-> Len(walk.pages) + 1, pageSize |-> walk.options.pageSize,
                      where |-> walk.options.where, orderBy |-> walk.options.orderBy])

\* The caller keeps the data and the totalPages of the envelope.
WalkTake ==
    /\ walk.active
    /\ last.op = "paginate"
    /\ walk' = [walk EXCEPT !.pages = Append(@, last.rows),
                            !.totalPages = last.page.totalPages]
    /\ last' = NoCall
    /\ UNCHANGED <<store, now, pending, returnFields, accessor, users, res>>

NextWalk == WalkStart \/ WalkPaginate \/ PaginateData \/ WalkTake

SpecWalk == InitWalk /\ [][NextWalk]_vars

\* The rows of pages 1..n, in the order read.
RECURSIVE Concatenated(_, _)
Concatenated(pages, n) ==
    IF n = 0 THEN <<>> ELSE Concatenated(pages, n - 1) \o pages[n]

\* C29: on a table nobody writes, with pageSize, where and orderBy fixed, the
\* pages 1..totalPages of paginate hold every row that satisfies where exactly
\* once, whatever the values of the ordering column, equal ones included, and
\* the page after totalPages is empty.
C29_PagesPartitionFilteredRows ==
    (walk.active /\ WalkDone /\ last.op = "none") =>
        LET read == Concatenated(walk.pages, walk.totalPages)
        IN /\ RowsOf(read) = Selected(store, walk.options.where)
           /\ Len(read) = Cardinality(Selected(store, walk.options.where))
           /\ walk.pages[walk.totalPages + 1] = <<>>

\* The same when no two rows have the same value in the ordering column
\* (orderBy id).
C29_PartitionWhenOrderedById ==
    (walk.active /\ walk.options.orderBy # <<>>) => C29_PagesPartitionFilteredRows

\* The page after totalPages is empty, whatever the ordering.
C29_PageBeyondIsEmpty ==
    (walk.active /\ WalkDone /\ last.op = "none") =>
        walk.pages[walk.totalPages + 1] = <<>>

\* Two rows with the same created_at, one row a page, default ordering: page 1
\* and page 2 hold the same row, the other row is on no page.
C29_TiedRowOnTwoPages ==
    /\ walk.active
    /\ WalkDone
    /\ walk.options.orderBy = <<>>
    /\ walk.options.pageSize = 1
    /\ Cardinality(store) = 2
    /\ walk.totalPages = 2
    /\ walk.pages[1] = walk.pages[2]
    /\ \E r \in store : r \notin RowsOf(Concatenated(walk.pages, 2))

====
